---------------------------- MODULE Spec2Model ----------------------------
(***************************************************************************)
(* A state-machine model of the landing-page enhancer of                   *)
(* juanjosesc/formalizese-landing (src/unnamed/part_000).                  *)
(*                                                                         *)
(* Every widget is a group of variables and a group of actions, one action *)
(* per callback of the source.  The browser is the environment: animation  *)
(* frames, timers, intersection notifications, iframe events and direct    *)
(* calls through the global debug surface are the inputs.  Each widget has *)
(* its own specification (SpecFps, SpecForm, SpecAnim, SpecRegistry,       *)
(* SpecReveal), in which the variables of the other widgets do not change. *)
(*                                                                         *)
(* Time is in milliseconds.  A timer registered by setTimeout(f, d) is a   *)
(* record with its due time; time never passes a pending timer (Tick),     *)
(* and of the timers that are due the earliest registered runs first.      *)
(***************************************************************************)
EXTENDS Integers, Sequences, FiniteSets, TLC

VARIABLES
    \* ---- the browser
    now,                \* performance.now() / Date.now()
    timers,             \* pending setTimeout callbacks, in registration order
    bodyClasses,        \* document.body.classList
    \* ---- PerformanceMonitor (frame-rate sampler)
    pmStarted,          \* start() has run
    frameCount,         \* this.frameCount
    lastFrameTime,      \* this.lastFrameTime
    fps,                \* this.metrics.fps
    frameDelta,         \* the display's frame interval (the environment's)
    mobileInitDone,     \* initMobileOptimizations has run
    bodyLoaded,         \* initDeferred has marked the body 'loaded'
    \* ---- SmartFormLoader
    formDoc,            \* what the document holds: "none", "container", "both"
    formInitDone,       \* init() has run
    startTime,          \* loadForm's startTime
    skeletonRemoved,    \* loadForm's skeletonRemoved
    loadAttempts,       \* this.loadAttempts
    isLoaded,           \* this.isLoaded
    formLoadedClass,    \* the container carries 'form-loaded'
    skeleton,           \* the placeholder: "none", "shown", "fading", "removed"
    skeletonText,       \* what it shows: "loading", "retrying", "error"
    iframeOpacity,      \* iframe.style.opacity: "", "0", "1"
    request,            \* the iframe's navigation: "none", "pending"
    reloads,            \* history: iframe.src assignments of retryLoad
    loadEvents,         \* history: load events handled
    errorEvents,        \* history: error events handled
    errorsBeforeTimeout,\* history: error events handled before the timeout ran
    timeoutFired,       \* history: the loadTimeout callback has run
    errorStateRuns,     \* history: calls of showErrorState
    reloadsAfterError,  \* history: reloads after showErrorState first ran
    removedAt,          \* history: when skeleton.remove() ran, or -1
    attemptStart,       \* history: when the latest load attempt started
    \* ---- AnimationManager, the monitor's registry, the ticker
    docKind,            \* the document: what marks each animated element
    pos,                \* where each element is: "out", "near", "in"
    amInitDone,         \* AnimationManager.init and initTicker have run
    dataAnimation,      \* the elements that carry data-animation
    animationId,        \* each element's dataset.animationId
    observed,           \* the targets of the visibilityObserver
    amBatch,            \* entries the visibilityObserver is delivering
    tkBatch,            \* entries the ticker's observer is delivering
    playState,          \* style.animationPlayState: "", "running", "paused"
    animationRegistry,  \* performanceMonitor.animationRegistry, oldest first
    animationsRunning,  \* performanceMonitor.metrics.animationsRunning
    hovering,           \* the pointer is over the ticker
    objPaused,          \* pause() was called on the pausable object
    dropped,            \* history: elements whose last resume request was dropped

    \* ScrollAnimations
    saInitDone,         \* ScrollAnimations.init has run
    saPos,              \* where each reveal element is: "out", "in"
    saObserved,         \* the targets of ScrollAnimations.observer
    saBatch,            \* the entries of the observer's next callback
    animatedElements,   \* ScrollAnimations.animatedElements
    visible,            \* the elements that carry the class 'visible'
    revealsScheduled,   \* history: reveal timers set, per element
    visibleAdds,        \* history: classList.add('visible') calls, per element
    reentered,          \* history: elements that came back into the viewport
                        \* while their reveal timer was pending

    \* ProgressiveImageLoader
    imgStrategy,        \* "none" before init, then "native" or "polyfill"
    imgPos,             \* where each lazy image is: "out", "in"
    imgObserverCreated, \* this.observer is an IntersectionObserver
    imgObserved,        \* the targets of this.observer
    imgBatch,           \* the entries of the observer's next callback
    imgClasses,         \* each image's classes among loading, loaded, error
    imgRequest,         \* the browser's own load of each image
    tempPending,        \* per image, the temporary Images still loading
    loadImageCalls,     \* history: calls of loadImage, per image
    srcSwaps,           \* history: runs of img.src = tempImg.src, per image
    fallbackSets,       \* history: fallback sources set, per image
    imgReentered,       \* history: images that came back into the viewport
                        \* after loadImage was called for them

    \* initFormHandling and showNotification
    fhInitDone,         \* the window's message listener is attached
    gtagDefined,        \* typeof gtag !== 'undefined'
    toasts,             \* the '.notification' nodes in the document, in order
    toastFading,        \* the toasts whose slide-out animation was started
    toastsShown,        \* history: notifications created so far
    analyticsEvents,    \* history: gtag('event', 'form_submit') calls

    \* InitController
    unloaded,           \* controller.cleanup has run
    initialised,        \* the initialisers that ran, of those that only attach
                        \* styles or listeners

    \* scripts.js: the countdown
    cdDoc,              \* which of #hours, #minutes, #seconds the document has
    cdStarted,          \* the load listener has set the interval
    cdText,             \* the textContent of each countdown element
    cdRuns,             \* history: runs of updateCountdown
    cdErrors,           \* history: runs of updateCountdown that threw

    \* PerformanceMonitor (network speed)
    netSupported,       \* 'connection' in navigator
    netStarted,         \* start() has called detectNetworkSpeed
    effectiveType,      \* navigator.connection.effectiveType
    networkSpeed,       \* this.metrics.networkSpeed
    changeListeners,    \* 'change' listeners the monitor added to the connection
    netChanges,         \* history: change events of the connection
    evaluations,        \* history: runs of detectNetworkSpeed

    \* initWhatsAppTooltip and the tab's session storage
    tipDoc,             \* the page has '.whatsapp-float' with its tooltip
    tipInitDone,        \* initWhatsAppTooltip has run on the current page
    tooltipShown,       \* sessionStorage holds 'tooltipShown'
    tipOpacity,         \* the tooltip's style.opacity: "", "1" or "0"
    tipDisplayed,       \* the current page has displayed the tooltip
    pageLoads,          \* history: page loads of the session
    loadsDisplayed,     \* history: page loads that displayed the tooltip

    \* initCardEffects: for each card its style.transform, the closure's
    \* isAnimating, the direction of the pending frame callback, whether the
    \* pointer is over it, whether a finger is on it, and the last event
    cards

browserVars == <<now, timers, bodyClasses>>
fpsVars     == <<pmStarted, frameCount, lastFrameTime, fps, frameDelta,
                 mobileInitDone, bodyLoaded>>

formVars    == <<formDoc, formInitDone, startTime, skeletonRemoved, loadAttempts,
                 isLoaded, formLoadedClass, skeleton, skeletonText,
                 iframeOpacity, request, reloads, loadEvents, errorEvents,
                 errorsBeforeTimeout, timeoutFired, errorStateRuns,
                 reloadsAfterError, removedAt, attemptStart>>

animVars    == <<docKind, pos, amInitDone, dataAnimation, animationId, observed,
                 amBatch, tkBatch, playState, animationRegistry,
                 animationsRunning, hovering, objPaused, dropped>>

revealVars  == <<saInitDone, saPos, saObserved, saBatch, animatedElements,
                 visible, revealsScheduled, visibleAdds, reentered>>

imageVars   == <<imgStrategy, imgPos, imgObserverCreated, imgObserved, imgBatch,
                 imgClasses, imgRequest, tempPending, loadImageCalls, srcSwaps,
                 fallbackSets, imgReentered>>

toastVars   == <<fhInitDone, gtagDefined, toasts, toastFading, toastsShown,
                 analyticsEvents>>

controllerVars == <<unloaded, initialised>>
countdownVars  == <<cdDoc, cdStarted, cdText, cdRuns, cdErrors>>
networkVars    == <<netSupported, netStarted, effectiveType, networkSpeed,
                    changeListeners, netChanges, evaluations>>
tooltipVars    == <<tipDoc, tipInitDone, tooltipShown, tipOpacity, tipDisplayed,
                    pageLoads, loadsDisplayed>>
cardVars       == <<cards>>

\* What the actions of one widget leave alone: the other widgets.
notFps    == <<formVars, animVars, revealVars, imageVars, toastVars,
              controllerVars, countdownVars,
                   networkVars, tooltipVars, cardVars>>
notForm   == <<fpsVars, animVars, revealVars, imageVars, toastVars,
              controllerVars, countdownVars,
                   networkVars, tooltipVars, cardVars>>
notAnim   == <<fpsVars, formVars, revealVars, imageVars, toastVars,
              controllerVars, countdownVars,
                   networkVars, tooltipVars, cardVars>>
notReveal == <<fpsVars, formVars, animVars, imageVars, toastVars,
              controllerVars, countdownVars,
                   networkVars, tooltipVars, cardVars>>
notImage  == <<fpsVars, formVars, animVars, revealVars, toastVars,
              controllerVars, countdownVars,
                   networkVars, tooltipVars, cardVars>>
notToast  == <<fpsVars, formVars, animVars, revealVars, imageVars,
              controllerVars, countdownVars,
                   networkVars, tooltipVars, cardVars>>
notNetwork == <<fpsVars, formVars, animVars, revealVars, imageVars, toastVars,
               controllerVars, countdownVars, tooltipVars, cardVars>>
notTooltip == <<fpsVars, formVars, animVars, revealVars, imageVars, toastVars,
               controllerVars, countdownVars, networkVars, cardVars>>
notCards   == <<fpsVars, formVars, animVars, revealVars, imageVars, toastVars,
               controllerVars, countdownVars, networkVars, tooltipVars>>

-----------------------------------------------------------------------------
(* Bounds of the model *)

\* Time stops here in the form loader's specification.
MaxFormTime == 14400
\* The step of the form loader's clock, in ms.
TimeStep == 100
\* The cards of the document.
NumCards == 2
\* The page loads of one browser session.
MaxPageLoads == 3
\* Time stops here in the tooltip's specification.
MaxTipTime == 20000
\* The step of the tooltip's clock, in ms.
TipStep == 1000
\* The change events of the network connection in one run.
MaxNetChanges == 5
\* The step of the clock in the form loader's fair specification, in ms.
WaitStep == 1000
\* The animated elements of the document.
NumElements == 4
\* The elements ScrollAnimations observes.
NumReveal == 3
\* Time stops here in the reveal animator's specification.
MaxRevealTime == 150
\* The lazy images of the document.
NumImages == 3
\* The notifications created in a run, the time that passes in the
\* notifications' specification and its step.
MaxToasts == 3
\* The smooth scrolls under way at one time, and the time that passes in the
\* flags' specification.
MaxScrolls == 2
MaxFlagTime == 1100
\* The runs of updateCountdown in a run of the model.
MaxCountdownRuns == 3
MaxToastTime == 7000
ToastStep == 1000

\* Time stops here.
MaxNow == 3100

(* Program constants *)

\* The measurement window of measureFPS, in ms.
FPS_WINDOW == 1000
\* fps below this reduces quality.
FPS_LOW == 30
\* fps above this restores quality.
FPS_HIGH == 50
\* metrics.fps as constructed.
FPS_INITIAL == 60

\* CONFIG.FORM_LOAD_TIMEOUT
FORM_LOAD_TIMEOUT == 10000
\* CONFIG.SKELETON_MIN_DISPLAY
SKELETON_MIN_DISPLAY == 800
\* this.maxAttempts
maxAttempts == 3
\* The delay of the retry timer of handleError.
RETRY_DELAY == 2000
\* The delay of the timer of removeSkeletonAndShowForm.
SKELETON_FADE_DELAY == 300
\* The delay before initWhatsAppTooltip shows the tooltip.
TIP_SHOW_DELAY == 3000
\* The time the tooltip stays shown.
TIP_DURATION == 5000

\* CONFIG.MAX_CONCURRENT_ANIMATIONS
MAX_CONCURRENT_ANIMATIONS == 3
\* The stagger of the reveal timers: index * 50 (line 686).
STAGGER == 50
\* initSmoothScroll: the time the class 'scrolling' stays (line 577).
SCROLLING_TIME == 1000
\* scripts.js: the interval of the countdown (line 37).
COUNTDOWN_INTERVAL == 1000
\* showNotification: the toast's life and its slide-out (lines 827-832).
TOAST_DURATION == 5000
TOAST_SLIDE_OUT == 500

(* Inputs *)

\* The frame intervals of the display, in ms: about 100, 53, 50, 40, 30, 29
\* and 25 frames a second.
FrameDeltas == {10, 19, 20, 25, 33, 34, 40}
\* Time between the construction of the monitor and start(), in ms.
StartDelays == {0, 1200}

-----------------------------------------------------------------------------
(* Helpers *)

Min(a, b) == IF a <= b THEN a ELSE b
Max(a, b) == IF a >= b THEN a ELSE b

\* Math.round(a / b) for a >= 0, b > 0: halves round up.
MathRound(a, b) == (2 * a + b) \div (2 * b)

\* The indices of the pending timers.
TimerIdx == 1..Len(timers)

\* The due time of the earliest pending timer, or t when none is pending
\* before t.
ClipToTimers(t) ==
    IF \E i \in TimerIdx : timers[i].due < t
    THEN CHOOSE d \in {timers[i].due : i \in TimerIdx} :
             \A j \in TimerIdx : d <= timers[j].due
    ELSE t

\* The timer the event loop runs next: due, with the least due time, and of
\* those the one registered first.
IsNextTimer(i) ==
    /\ i \in TimerIdx
    /\ timers[i].due <= now
    /\ \A j \in TimerIdx :
          \/ timers[j].due > timers[i].due
          \/ (timers[j].due = timers[i].due /\ j >= i)

\* timers without its i-th entry.
RemoveAt(s, i) == [j \in 1..(Len(s) - 1) |-> IF j < i THEN s[j] ELSE s[j + 1]]

\* setTimeout(kind, delay)
SetTimeout(ts, kind, delay, arg) ==
    Append(ts, [kind |-> kind, due |-> now + delay, arg |-> arg])

\* No callback is due: the event loop is free to let time pass.
NoTimerDue == \A i \in TimerIdx : timers[i].due > now

-----------------------------------------------------------------------------
(* PerformanceMonitor: the frame-rate sampler (lines 46-64, 95-102) *)

\* reduceQuality() on document.body.classList
mutant_reduceQuality(classes) == classes
reduceQuality(classes) == classes \cup {"reduce-animations"}

\* restoreQuality() on document.body.classList
mutant_restoreQuality(classes) == classes
restoreQuality(classes) == classes \ {"reduce-animations"}

\* A measurement window ends at time t.
WindowEnds(t) == t >= lastFrameTime + FPS_WINDOW

\* The fps a window that ends at t computes (frameCount was incremented
\* before the division).
WindowFps(t) == MathRound((frameCount + 1) * 1000, t - lastFrameTime)

\* measureFPS() run at time t.
measureFPS(t) ==
    IF WindowEnds(t)
    THEN /\ fps' = WindowFps(t)
         /\ frameCount' = 0
         /\ lastFrameTime' = t
         /\ bodyClasses' =
               IF WindowFps(t) < FPS_LOW THEN reduceQuality(bodyClasses)
               ELSE IF WindowFps(t) > FPS_HIGH THEN restoreQuality(bodyClasses)
               ELSE bodyClasses
    ELSE /\ frameCount' = frameCount + 1
         /\ UNCHANGED <<fps, lastFrameTime, bodyClasses>>

\* performanceMonitor.start(), d ms after the monitor was constructed: the
\* first measureFPS call.  The display then delivers a frame every fd ms.
PMStart(d, fd) ==
    /\ ~pmStarted
    /\ now + d <= MaxNow
    /\ pmStarted' = TRUE
    /\ now' = now + d
    /\ frameDelta' = fd
    /\ measureFPS(now + d)
    /\ UNCHANGED <<timers, mobileInitDone, bodyLoaded>>
    /\ UNCHANGED notFps

\* An animation frame: the requestAnimationFrame callback runs measureFPS.
\* The frame interval fd of the display changes only with a frame that
\* closes a window.
Frame(fd) ==
    /\ pmStarted
    /\ now + frameDelta <= MaxNow
    /\ now' = now + frameDelta
    /\ frameDelta' = IF WindowEnds(now + frameDelta) THEN fd ELSE frameDelta
    /\ (WindowEnds(now + frameDelta) \/ fd = frameDelta)
    /\ measureFPS(now + frameDelta)
    /\ UNCHANGED <<timers, pmStarted, mobileInitDone, bodyLoaded>>
    /\ UNCHANGED notFps

\* initMobileOptimizations() (lines 947-962), called by initCritical after
\* start(): the user agent is a mobile one or it is not.
MobileInit(isMobile) ==
    /\ pmStarted
    /\ ~mobileInitDone
    /\ mobileInitDone' = TRUE
    /\ bodyClasses' = IF isMobile
                      THEN bodyClasses \cup {"touch-device", "reduce-effects"}
                      ELSE bodyClasses
    /\ UNCHANGED <<now, timers, pmStarted, frameCount, lastFrameTime, fps,
                   frameDelta, bodyLoaded>>
    /\ UNCHANGED notFps

\* The end of initDeferred (line 1164), run from requestIdleCallback.
MarkLoaded ==
    /\ mobileInitDone
    /\ ~bodyLoaded
    /\ bodyLoaded' = TRUE
    /\ bodyClasses' = bodyClasses \cup {"loaded"}
    /\ UNCHANGED <<now, timers, pmStarted, frameCount, lastFrameTime, fps,
                   frameDelta, mobileInitDone>>
    /\ UNCHANGED notFps

-----------------------------------------------------------------------------
(* PerformanceMonitor.detectNetworkSpeed (lines 66-79) *)

\* The values of navigator.connection.effectiveType.
EffectiveTypes == {"slow-2g", "2g", "3g", "4g"}

\* The speed detectNetworkSpeed derives from the effective type (lines 71-73).
SpeedOf(type) ==
    IF type = "4g" THEN "high" ELSE IF type = "3g" THEN "medium" ELSE "low"

\* start() calls detectNetworkSpeed (line 42): with a connection object it
\* sets the speed and adds a 'change' listener.
NetStart ==
    /\ ~netStarted
    /\ netStarted' = TRUE
    /\ IF netSupported
       THEN /\ networkSpeed' = SpeedOf(effectiveType)
            /\ changeListeners' = changeListeners + 1
            /\ evaluations' = evaluations + 1
       ELSE UNCHANGED <<networkSpeed, changeListeners, evaluations>>
    /\ UNCHANGED <<netSupported, effectiveType, netChanges>>
    /\ UNCHANGED <<browserVars, notNetwork>>

\* The connection changes, its effective type is now t, and it dispatches
\* 'change' (lines 75-77):
\* each listener registered before the dispatch runs detectNetworkSpeed
\* once, and each of these runs adds a listener.
NetChange(t) ==
    /\ netSupported
    /\ netChanges < MaxNetChanges
    /\ effectiveType' = t
    /\ netChanges' = netChanges + 1
    /\ networkSpeed' = IF changeListeners > 0 THEN SpeedOf(t) ELSE networkSpeed
    /\ evaluations' = evaluations + changeListeners
    /\ changeListeners' = changeListeners + changeListeners
    /\ UNCHANGED <<netSupported, netStarted>>
    /\ UNCHANGED <<browserVars, notNetwork>>

-----------------------------------------------------------------------------
(* initWhatsAppTooltip (lines 877-915) and the tab's session storage *)

\* initWhatsAppTooltip on the current page (lines 877-898): without the
\* 'tooltipShown' item it sets the timer that shows the tooltip.  The badge's
\* pulse interval (lines 901-914) touches only the badge.
TooltipInit ==
    /\ ~tipInitDone
    /\ tipInitDone' = TRUE
    /\ timers' = IF ~tooltipShown /\ tipDoc
                 THEN SetTimeout(timers, "tipShow", TIP_SHOW_DELAY, 0)
                 ELSE timers
    /\ UNCHANGED <<now, bodyClasses>>
    /\ UNCHANGED <<tipDoc, tooltipShown, tipOpacity, tipDisplayed, pageLoads,
                   loadsDisplayed>>
    /\ UNCHANGED notTooltip

\* The outer timer (lines 887-896): the tooltip shows and the timer that
\* hides it is set.
TipShow(i) ==
    /\ IsNextTimer(i)
    /\ timers[i].kind = "tipShow"
    /\ tipOpacity' = "1"
    /\ tipDisplayed' = TRUE
    /\ loadsDisplayed' = IF tipDisplayed THEN loadsDisplayed
                         ELSE loadsDisplayed + 1
    /\ timers' = SetTimeout(RemoveAt(timers, i), "tipHide", TIP_DURATION, 0)
    /\ UNCHANGED <<now, bodyClasses>>
    /\ UNCHANGED <<tipDoc, tipInitDone, tooltipShown, pageLoads>>
    /\ UNCHANGED notTooltip

\* The inner timer (lines 891-895): the tooltip hides and the session
\* storage item is written.
TipHide(i) ==
    /\ IsNextTimer(i)
    /\ timers[i].kind = "tipHide"
    /\ tipOpacity' = "0"
    /\ tooltipShown' = TRUE
    /\ timers' = RemoveAt(timers, i)
    /\ UNCHANGED <<now, bodyClasses>>
    /\ UNCHANGED <<tipDoc, tipInitDone, tipDisplayed, pageLoads, loadsDisplayed>>
    /\ UNCHANGED notTooltip

\* The user reloads the page in the same tab: the old page's timers and its
\* document are gone, the session storage stays.
Reload ==
    /\ pageLoads < MaxPageLoads
    /\ pageLoads' = pageLoads + 1
    /\ timers' = <<>>
    /\ tipInitDone' = FALSE
    /\ tipOpacity' = ""
    /\ tipDisplayed' = FALSE
    /\ UNCHANGED <<now, bodyClasses>>
    /\ UNCHANGED <<tipDoc, tooltipShown, loadsDisplayed>>
    /\ UNCHANGED notTooltip

\* Time passes, up to the next pending timer.
TipTick ==
    /\ NoTimerDue
    /\ ClipToTimers(now + TipStep) <= MaxTipTime
    /\ now' = ClipToTimers(now + TipStep)
    /\ UNCHANGED <<timers, bodyClasses, tooltipVars>>
    /\ UNCHANGED notTooltip

-----------------------------------------------------------------------------
(* initCardEffects (lines 718-745) *)

Cards == 1..NumCards

\* The events initCardEffects listens to (lines 740-743).
CardEvents == {"mouseenter", "mouseleave", "touchstart", "touchend"}

\* The direction each listener passes to animateCard (lines 740-743).
DirectionOf(ev) == IF ev \in {"mouseenter", "touchstart"} THEN "up" ELSE "down"

\* The transform the frame callback writes (line 734).
TransformOf(direction) ==
    IF direction = "up" THEN "translateY(-8px)" ELSE "translateY(0)"

\* The browser can deliver ev to a card in state cd: enter and leave
\* alternate, and so do touchstart and touchend.
CanReceive(cd, ev) ==
    CASE ev = "mouseenter" -> ~cd.hovering
      [] ev = "mouseleave" -> cd.hovering
      [] ev = "touchstart" -> ~cd.touching
      [] ev = "touchend"   -> cd.touching

\* animateCard(direction) (lines 729-737) on a card in state cd: the call is
\* dropped while a frame callback is pending.
animateCard(cd, direction) ==
    IF cd.isAnimating THEN cd
    ELSE [cd EXCEPT !.isAnimating = TRUE, !.direction = direction]

\* A listener of card c runs for the event ev (lines 740-743).
CardEvent(c, ev) ==
    /\ CanReceive(cards[c], ev)
    /\ cards' = [cards EXCEPT ![c] =
                    animateCard([cards[c] EXCEPT
                                    !.hovering = IF ev = "mouseenter" THEN TRUE
                                                 ELSE IF ev = "mouseleave" THEN FALSE
                                                 ELSE @,
                                    !.touching = IF ev = "touchstart" THEN TRUE
                                                 ELSE IF ev = "touchend" THEN FALSE
                                                 ELSE @,
                                    !.lastEvent = ev],
                                DirectionOf(ev))]
    /\ UNCHANGED <<browserVars, notCards>>

\* An animation frame: every pending callback of animateCard runs
\* (lines 733-736).
CardFrame ==
    /\ \E c \in Cards : cards[c].isAnimating
    /\ cards' = [c \in Cards |->
                    IF cards[c].isAnimating
                    THEN [cards[c] EXCEPT
                             !.transform = TransformOf(cards[c].direction),
                             !.isAnimating = FALSE]
                    ELSE cards[c]]
    /\ UNCHANGED <<browserVars, notCards>>

-----------------------------------------------------------------------------
(* SmartFormLoader (lines 156-393) *)

\* The placeholder is in the container: querySelector('.form-skeleton-loader')
\* finds it.
SkeletonInDom == skeleton \in {"shown", "fading"}

\* The opacity createSkeletonLoader gives the iframe (line 207).
mutant_HiddenOpacity == "1"
HiddenOpacity == "0"

\* handleLoad's minDisplayTime (line 294).
mutant_MinDisplayTime(loadTime) == 0
MinDisplayTime(loadTime) == Max(0, SKELETON_MIN_DISPLAY - loadTime)

\* handleError's test (line 310) on the incremented counter.
mutant_ShouldRetry(attempts) == attempts <= maxAttempts
mutant_AlwaysRetry(attempts) == TRUE
ShouldRetry(attempts) == attempts < maxAttempts

\* init() (lines 165-171): createSkeletonLoader and loadForm.  lazy: the
\* iframe is loading="lazy" and loadForm restarts its navigation;
\* loadedBefore: the iframe finished loading before the listeners were added.
FormInit(lazy, loadedBefore) ==
    /\ ~formInitDone
    /\ formInitDone' = TRUE
    /\ IF formDoc = "both"
       THEN /\ iframeOpacity' = HiddenOpacity
            /\ skeleton' = "shown"
            /\ startTime' = now
            /\ timers' = SetTimeout(timers, "loadTimeout", FORM_LOAD_TIMEOUT, 0)
            /\ request' = IF lazy \/ ~loadedBefore THEN "pending" ELSE "none"
            /\ attemptStart' = now
       ELSE UNCHANGED <<iframeOpacity, skeleton, startTime, timers, request,
                        attemptStart>>
    /\ UNCHANGED <<now, bodyClasses, formDoc, skeletonRemoved, loadAttempts,
                   isLoaded, formLoadedClass, skeletonText, reloads, loadEvents,
                   errorEvents, errorsBeforeTimeout, timeoutFired,
                   errorStateRuns, reloadsAfterError, removedAt>>
    /\ UNCHANGED notForm

\* The timers left by clearTimeout(loadTimeout).
ClearLoadTimeout(ts) == SelectSeq(ts, LAMBDA t : t.kind # "loadTimeout")

\* The iframe's load event (lines 325-328): clearTimeout and handleLoad
\* (lines 292-305).
IframeLoad ==
    /\ formInitDone
    /\ request = "pending"
    /\ request' = "none"
    /\ timers' = Append(ClearLoadTimeout(timers),
                        [kind |-> "removeSkeleton",
                         due  |-> now + MinDisplayTime(now - startTime),
                         arg  |-> 0])
    /\ isLoaded' = TRUE
    /\ formLoadedClass' = TRUE
    /\ loadEvents' = loadEvents + 1
    /\ UNCHANGED <<now, bodyClasses, formDoc, formInitDone, startTime,
                   skeletonRemoved, loadAttempts, skeleton, skeletonText,
                   iframeOpacity, reloads, errorEvents, errorsBeforeTimeout,
                   timeoutFired, errorStateRuns, reloadsAfterError, removedAt,
                   attemptStart>>
    /\ UNCHANGED notForm

\* handleError (lines 308-315) with showErrorState (lines 368-392); ts are
\* the timers the caller leaves.  A retry timer carries the time of the
\* failure that set it.
handleError(ts) ==
    /\ loadAttempts' = loadAttempts + 1
    /\ IF ShouldRetry(loadAttempts + 1)
       THEN /\ timers' = Append(ts, [kind |-> "retry", due |-> now + RETRY_DELAY,
                                     arg |-> now])
            /\ UNCHANGED <<skeletonText, errorStateRuns>>
       ELSE /\ timers' = ts
            /\ errorStateRuns' = errorStateRuns + 1
            /\ skeletonText' = IF SkeletonInDom THEN "error" ELSE skeletonText

\* The iframe's error event (line 330).
IframeError ==
    /\ formInitDone
    /\ request = "pending"
    /\ request' = "none"
    /\ handleError(timers)
    /\ errorEvents' = errorEvents + 1
    /\ errorsBeforeTimeout' = IF timeoutFired THEN errorsBeforeTimeout
                              ELSE errorsBeforeTimeout + 1
    /\ UNCHANGED <<now, bodyClasses, formDoc, formInitDone, startTime,
                   skeletonRemoved, isLoaded, formLoadedClass, skeleton,
                   iframeOpacity, reloads, loadEvents, timeoutFired,
                   reloadsAfterError, removedAt, attemptStart>>
    /\ UNCHANGED notForm

\* The loadTimeout callback (lines 318-322).
LoadTimeout(i) ==
    /\ IsNextTimer(i)
    /\ timers[i].kind = "loadTimeout"
    /\ timeoutFired' = TRUE
    /\ IF ~isLoaded
       THEN handleError(RemoveAt(timers, i))
       ELSE /\ timers' = RemoveAt(timers, i)
            /\ UNCHANGED <<loadAttempts, skeletonText, errorStateRuns>>
    /\ UNCHANGED <<now, bodyClasses, formDoc, formInitDone, startTime,
                   skeletonRemoved, isLoaded, formLoadedClass, skeleton,
                   iframeOpacity, request, reloads, loadEvents, errorEvents,
                   errorsBeforeTimeout, reloadsAfterError, removedAt,
                   attemptStart>>
    /\ UNCHANGED notForm

\* The retry timer: retryLoad (lines 355-366).  The '.skeleton-loading-text'
\* node exists while the placeholder shows its own markup.
RetryLoad(i) ==
    /\ IsNextTimer(i)
    /\ timers[i].kind = "retry"
    /\ timers' = RemoveAt(timers, i)
    /\ skeletonText' = IF SkeletonInDom /\ skeletonText # "error"
                       THEN "retrying" ELSE skeletonText
    /\ request' = "pending"
    /\ reloads' = reloads + 1
    /\ attemptStart' = now
    /\ reloadsAfterError' = IF errorStateRuns > 0 THEN reloadsAfterError + 1
                            ELSE reloadsAfterError
    /\ UNCHANGED <<now, bodyClasses, formDoc, formInitDone, startTime,
                   skeletonRemoved, loadAttempts, isLoaded, formLoadedClass,
                   skeleton, iframeOpacity, loadEvents, errorEvents,
                   errorsBeforeTimeout, timeoutFired, errorStateRuns, removedAt>>
    /\ UNCHANGED notForm

\* The timer of handleLoad (lines 296-301) with the first half of
\* removeSkeletonAndShowForm (lines 339-346).
RemoveSkeleton(i) ==
    /\ IsNextTimer(i)
    /\ timers[i].kind = "removeSkeleton"
    /\ IF ~skeletonRemoved
       THEN /\ skeletonRemoved' = TRUE
            /\ IF SkeletonInDom
               THEN /\ skeleton' = "fading"
                    /\ timers' = Append(RemoveAt(timers, i),
                                        [kind |-> "fadeOut",
                                         due  |-> now + SKELETON_FADE_DELAY,
                                         arg  |-> 0])
               ELSE /\ timers' = RemoveAt(timers, i)
                    /\ UNCHANGED skeleton
       ELSE /\ timers' = RemoveAt(timers, i)
            /\ UNCHANGED <<skeletonRemoved, skeleton>>
    /\ UNCHANGED <<now, bodyClasses, formDoc, formInitDone, startTime,
                   loadAttempts, isLoaded, formLoadedClass, skeletonText,
                   iframeOpacity, request, reloads, loadEvents, errorEvents,
                   errorsBeforeTimeout, timeoutFired, errorStateRuns,
                   reloadsAfterError, removedAt, attemptStart>>
    /\ UNCHANGED notForm

\* The timer of removeSkeletonAndShowForm (lines 346-351).
FadeOut(i) ==
    /\ IsNextTimer(i)
    /\ timers[i].kind = "fadeOut"
    /\ timers' = RemoveAt(timers, i)
    /\ skeleton' = "removed"
    /\ iframeOpacity' = "1"
    /\ removedAt' = IF removedAt = -1 THEN now ELSE removedAt
    /\ UNCHANGED <<now, bodyClasses, formDoc, formInitDone, startTime,
                   skeletonRemoved, loadAttempts, isLoaded, formLoadedClass,
                   skeletonText, request, reloads, loadEvents, errorEvents,
                   errorsBeforeTimeout, timeoutFired, errorStateRuns,
                   reloadsAfterError, attemptStart>>
    /\ UNCHANGED notForm

\* Time passes, up to the next pending timer.
Tick ==
    /\ formInitDone
    /\ NoTimerDue
    /\ ClipToTimers(now + TimeStep) <= MaxFormTime
    /\ now' = ClipToTimers(now + TimeStep)
    /\ UNCHANGED <<timers, bodyClasses, formVars>>
    /\ UNCHANGED notForm

\* Time passes while a timer is pending, up to the next pending timer: the
\* browser's clock is not bounded, and once no timer is pending only the
\* iframe's events can change the loader, whatever the time.
Wait ==
    /\ formInitDone
    /\ timers # <<>>
    /\ NoTimerDue
    /\ now' = ClipToTimers(now + WaitStep)
    /\ UNCHANGED <<timers, bodyClasses, formVars>>
    /\ UNCHANGED notForm

-----------------------------------------------------------------------------
(* AnimationManager (lines 398-549), the monitor's registry (lines 117-133) *)
(* and initTicker (lines 844-872)                                          *)

\* The animated elements; the first is the '.ticker-content' element.
Elements == 1..NumElements
TICKER == 1
ElementSeq == [e \in Elements |-> e]

\* What marks an element as animated in the document:
\*   "S": the HTML gives it data-animation and no data-animation-id;
\*   "B": the HTML gives it data-animation, and it matches a selector of
\*        optimizeExistingAnimations;
\*   "O": it only matches a selector of optimizeExistingAnimations.
\* The ticker matches '.ticker-content'; the other elements are of one kind.
DocKinds ==
    {k \in [Elements -> {"S", "B", "O"}] :
        /\ k[TICKER] # "S"
        /\ \A e, f \in Elements \ {TICKER} : k[e] = k[f]}

\* The id optimizeExistingAnimations gives an element: `${type}-${i}`.
OptId(e) == <<"scroll-0", "float-0", "float-1", "float-2", "float-3", "float-4">>[e]

\* An object with a pause() method, as a caller of the debug surface may
\* register; the elements registered by resumeAnimation have none.
PausableObj == 0
HasPause(animation) == animation = PausableObj

\* What a direct call registers as an animation, and the ids of direct calls:
\* the id optimizeExistingAnimations gives the ticker, and a fresh one.
DirectAnimations == {PausableObj}
DirectIds == {"scroll-0", "dbg"}

\* The observers' view of a position: the visibilityObserver has a 50px
\* root margin (line 427), the ticker's observer has none (line 859).
AMIntersects(p) == p \in {"near", "in"}
TickerIntersects(p) == p = "in"
Positions(e) == IF e = TICKER THEN {"out", "near", "in"} ELSE {"out", "in"}

\* Map operations on the registry, a sequence of [id, animation] in
\* insertion order.
RegHas(reg, id) == \E i \in 1..Len(reg) : reg[i].id = id
RegGet(reg, id) == reg[CHOOSE i \in 1..Len(reg) : reg[i].id = id].animation
RegDelete(reg, id) == SelectSeq(reg, LAMBDA r : r.id # id)
RegSet(reg, id, animation) ==
    IF RegHas(reg, id)
    THEN [i \in 1..Len(reg) |->
             IF reg[i].id = id THEN [id |-> id, animation |-> animation] ELSE reg[i]]
    ELSE Append(reg, [id |-> id, animation |-> animation])
RegIds(reg) == {reg[i].id : i \in 1..Len(reg)}

\* PerformanceMonitor.pauseAnimation(id) (lines 127-133): the registry it
\* leaves, and whether it called animation.pause().
mutant_PMPauseRegistry(reg, id) == reg
PMPauseRegistry(reg, id) == RegDelete(reg, id)
PMPauseCalls(reg, id) == RegHas(reg, id) /\ HasPause(RegGet(reg, id))

\* PerformanceMonitor.registerAnimation(id, animation) (lines 117-125).
mutant_RegistryFull(reg) == FALSE
RegistryFull(reg) == Len(reg) >= MAX_CONCURRENT_ANIMATIONS
Oldest(reg) == reg[1].id
RegisterRegistry(reg, id, animation) ==
    RegSet(IF RegistryFull(reg) THEN PMPauseRegistry(reg, Oldest(reg)) ELSE reg,
           id, animation)
RegisterCalls(reg) == RegistryFull(reg) /\ PMPauseCalls(reg, Oldest(reg))

\* The budget test of resumeAnimation (line 471).
UnderBudget == animationsRunning < MAX_CONCURRENT_ANIMATIONS

\* The entries of an observer for the targets among es, in observe order.
Entries(es, p) ==
    LET s == SelectSeq(ElementSeq, LAMBDA e : e \in es)
    IN  [i \in 1..Len(s) |-> [target |-> s[i], isIntersecting |-> AMIntersects(p[s[i]])]]

\* setupVisibilityObserver (lines 412-436): the targets are the elements
\* that carry data-animation when it runs.
SetupTargets(flagged) == flagged

\* optimizeExistingAnimations (lines 438-459): the elements it flags.
Optimized == {e \in Elements : docKind[e] \in {"B", "O"}}

\* No observer callback is under way.
Idle == amBatch = <<>> /\ tkBatch = <<>>

\* initDeferred (lines 1150-1158): AnimationManager.init (setup the
\* observer, then optimizeExistingAnimations) and initTicker.  Both observers
\* then deliver their first entries.
InitDeferred ==
    /\ ~amInitDone
    /\ amInitDone' = TRUE
    /\ observed' = SetupTargets(dataAnimation)
    /\ dataAnimation' = dataAnimation \cup Optimized
    /\ animationId' = [e \in Elements |->
                          IF e \in Optimized THEN OptId(e) ELSE animationId[e]]
    /\ amBatch' = Entries(SetupTargets(dataAnimation), pos)
    /\ tkBatch' = <<TickerIntersects(pos[TICKER])>>
    /\ UNCHANGED <<docKind, pos, playState, animationRegistry, animationsRunning,
                   hovering, objPaused, dropped>>
    /\ UNCHANGED <<browserVars, notAnim>>

\* The page scrolls or is laid out again: element e moves to position p, and
\* each observer gets an entry for its target if the intersection changed.
\* Entries for several targets are handled one after the other with nothing
\* in between, as the entries of InitDeferred's first callback are.
Scroll(e, p) ==
    /\ amInitDone
    /\ Idle
    /\ p # pos[e]
    /\ pos' = [pos EXCEPT ![e] = p]
    /\ amBatch' = Entries({t \in observed \cap {e} :
                              AMIntersects(p) # AMIntersects(pos[e])},
                          [pos EXCEPT ![e] = p])
    /\ tkBatch' = IF e = TICKER /\ TickerIntersects(p) # TickerIntersects(pos[e])
                  THEN <<TickerIntersects(p)>> ELSE <<>>
    /\ UNCHANGED <<docKind, amInitDone, dataAnimation, animationId, observed,
                   playState, animationRegistry, animationsRunning, hovering,
                   objPaused, dropped>>
    /\ UNCHANGED <<browserVars, notAnim>>

\* AnimationManager.resumeAnimation(element, animationId) (lines 468-476).
resumeAnimation(element, id) ==
    IF UnderBudget
    THEN /\ playState' = [playState EXCEPT ![element] = "running"]
         /\ animationRegistry' = RegisterRegistry(animationRegistry, id, element)
         /\ animationsRunning' = Len(RegisterRegistry(animationRegistry, id, element))
         /\ objPaused' = (objPaused \/ RegisterCalls(animationRegistry))
         /\ dropped' = dropped \ {element}
    ELSE /\ dropped' = dropped \cup {element}
         /\ UNCHANGED <<playState, animationRegistry, animationsRunning, objPaused>>

\* AnimationManager.pauseAnimation(element, animationId) (lines 461-466).
pauseAnimation(element, id) ==
    /\ playState' = [playState EXCEPT ![element] = "paused"]
    /\ animationRegistry' = PMPauseRegistry(animationRegistry, id)
    /\ objPaused' = (objPaused \/ PMPauseCalls(animationRegistry, id))
    /\ UNCHANGED <<animationsRunning, dropped>>

\* One entry of the visibilityObserver's callback (lines 414-424).
AMEntry ==
    /\ amBatch # <<>>
    /\ amBatch' = Tail(amBatch)
    /\ IF Head(amBatch).isIntersecting
       THEN resumeAnimation(Head(amBatch).target, animationId[Head(amBatch).target])
       ELSE pauseAnimation(Head(amBatch).target, animationId[Head(amBatch).target])
    /\ UNCHANGED <<docKind, pos, amInitDone, dataAnimation, animationId, observed,
                   tkBatch, hovering>>
    /\ UNCHANGED <<browserVars, notAnim>>

\* The callback of the ticker's observer (lines 850-858); it runs after the
\* visibilityObserver's, which was created first.
TickerEntry ==
    /\ amBatch = <<>>
    /\ tkBatch # <<>>
    /\ tkBatch' = Tail(tkBatch)
    /\ playState' = [playState EXCEPT
                        ![TICKER] = IF Head(tkBatch) THEN "running" ELSE "paused"]
    /\ UNCHANGED <<docKind, pos, amInitDone, dataAnimation, animationId, observed,
                   amBatch, animationRegistry, animationsRunning, hovering,
                   objPaused, dropped>>
    /\ UNCHANGED <<browserVars, notAnim>>

\* The ticker's mouseenter listener (lines 865-867).
TickerMouseEnter ==
    /\ amInitDone
    /\ Idle
    /\ ~hovering
    /\ pos[TICKER] = "in"
    /\ hovering' = TRUE
    /\ playState' = [playState EXCEPT ![TICKER] = "paused"]
    /\ UNCHANGED <<docKind, pos, amInitDone, dataAnimation, animationId, observed,
                   amBatch, tkBatch, animationRegistry, animationsRunning,
                   objPaused, dropped>>
    /\ UNCHANGED <<browserVars, notAnim>>

\* The ticker's mouseleave listener (lines 869-871).  The event comes when
\* the pointer next moves, which may be after the ticker was scrolled away
\* from under it.
TickerMouseLeave ==
    /\ Idle
    /\ hovering
    /\ hovering' = FALSE
    /\ playState' = [playState EXCEPT ![TICKER] = "running"]
    /\ UNCHANGED <<docKind, pos, amInitDone, dataAnimation, animationId, observed,
                   amBatch, tkBatch, animationRegistry, animationsRunning,
                   objPaused, dropped>>
    /\ UNCHANGED <<browserVars, notAnim>>

\* window.FormaliZESE.performance.registerAnimation(id, animation)
\* (lines 117-125, 1208-1212).
DirectRegister(id, animation) ==
    /\ Idle
    /\ animationRegistry' = RegisterRegistry(animationRegistry, id, animation)
    /\ animationsRunning' = Len(RegisterRegistry(animationRegistry, id, animation))
    /\ objPaused' = (objPaused \/ RegisterCalls(animationRegistry))
    /\ UNCHANGED <<docKind, pos, amInitDone, dataAnimation, animationId, observed,
                   amBatch, tkBatch, playState, hovering, dropped>>
    /\ UNCHANGED <<browserVars, notAnim>>

\* window.FormaliZESE.performance.pauseAnimation(id) (lines 127-133).
DirectPause(id) ==
    /\ Idle
    /\ animationRegistry' = PMPauseRegistry(animationRegistry, id)
    /\ objPaused' = (objPaused \/ PMPauseCalls(animationRegistry, id))
    /\ UNCHANGED <<docKind, pos, amInitDone, dataAnimation, animationId, observed,
                   amBatch, tkBatch, playState, animationsRunning, hovering,
                   dropped>>
    /\ UNCHANGED <<browserVars, notAnim>>

-----------------------------------------------------------------------------
(* ScrollAnimations (lines 666-714) *)

\* The sections and cards observeElements observes, in observe order.
RevealElements == 1..NumReveal
RevealSeq == [i \in 1..NumReveal |-> i]

\* The observer's view of a position (threshold and root margin, lines
\* 692-695).
SAIntersects(p) == p = "in"

\* The entries of the observer for the targets among es, in observe order.
SAEntries(es, p) ==
    LET s == SelectSeq(RevealSeq, LAMBDA e : e \in es)
    IN  [i \in 1..Len(s) |-> [target |-> s[i], isIntersecting |-> SAIntersects(p[s[i]])]]

\* A reveal timer is pending for e.
RevealPending(e) == \E i \in TimerIdx : timers[i].kind = "reveal" /\ timers[i].arg = e

\* The delay of the timer set for the entry at index (line 686), indices
\* counted from 0 as forEach counts them.
mutant_RevealDelay(index) == 0
RevealDelay(index) == index * STAGGER

\* this.observer.unobserve(target) for the targets ts (line 688).
mutant_Unobserve(obs, ts) == obs
Unobserve(obs, ts) == obs \ ts

\* ScrollAnimations.init (lines 672-675): every section and card is observed;
\* the observer then reports each target once.
SAInit ==
    /\ ~saInitDone
    /\ saInitDone' = TRUE
    /\ saObserved' = RevealElements
    /\ saBatch' = SAEntries(RevealElements, saPos)
    /\ UNCHANGED <<saPos, animatedElements, visible, revealsScheduled,
                   visibleAdds, reentered>>
    /\ UNCHANGED <<browserVars, notReveal>>

\* The page scrolls: the elements of moved change sides, and the observer
\* queues an entry for each of its targets among them.  A callback reports a
\* target once: the page does not scroll again before the callback has run.
SAScroll(moved) ==
    /\ saInitDone
    /\ saBatch = <<>>
    /\ moved # {}
    /\ saPos' = [e \in RevealElements |->
                    IF e \in moved
                    THEN (IF saPos[e] = "in" THEN "out" ELSE "in")
                    ELSE saPos[e]]
    /\ saBatch' = SAEntries(moved \cap saObserved, saPos')
    /\ reentered' = reentered \cup
                       {e \in moved : saPos[e] = "out" /\ RevealPending(e)}
    /\ UNCHANGED <<saInitDone, saObserved, animatedElements, visible,
                   revealsScheduled, visibleAdds>>
    /\ UNCHANGED <<browserVars, notReveal>>

\* The entry at index i of the batch passes the test of line 681.
Reveals(i) ==
    /\ saBatch[i].isIntersecting
    /\ saBatch[i].target \notin animatedElements

\* The observer's callback (lines 678-691), over all the entries of the batch:
\* a passing entry at index i sets a timer of (i - 1) * 50 ms, indices
\* counted from 1 here, and its target is unobserved.
SACallback ==
    /\ saBatch # <<>>
    /\ saBatch' = <<>>
    /\ timers' = timers \o
           [k \in 1..Len(SelectSeq([i \in 1..Len(saBatch) |-> i], Reveals)) |->
               LET i == SelectSeq([j \in 1..Len(saBatch) |-> j], Reveals)[k]
               IN  [kind |-> "reveal", due |-> now + RevealDelay(i - 1),
                    arg |-> saBatch[i].target]]
    /\ saObserved' = Unobserve(saObserved,
                               {saBatch[i].target : i \in {j \in 1..Len(saBatch) : Reveals(j)}})
    /\ revealsScheduled' =
           [e \in RevealElements |->
               revealsScheduled[e] +
                  Cardinality({i \in 1..Len(saBatch) :
                                  Reveals(i) /\ saBatch[i].target = e})]
    /\ UNCHANGED <<saInitDone, saPos, animatedElements, visible, visibleAdds,
                   reentered>>
    /\ UNCHANGED <<now, bodyClasses, notReveal>>

\* A reveal timer runs (lines 683-686).
RevealTimer(i) ==
    /\ IsNextTimer(i)
    /\ timers[i].kind = "reveal"
    /\ timers' = RemoveAt(timers, i)
    /\ visible' = visible \cup {timers[i].arg}
    /\ animatedElements' = animatedElements \cup {timers[i].arg}
    /\ visibleAdds' = [visibleAdds EXCEPT ![timers[i].arg] = @ + 1]
    /\ UNCHANGED <<saInitDone, saPos, saObserved, saBatch, revealsScheduled,
                   reentered>>
    /\ UNCHANGED <<now, bodyClasses, notReveal>>

\* Time passes, up to the next pending timer.
SATick ==
    /\ saInitDone
    /\ NoTimerDue
    /\ ClipToTimers(now + STAGGER) <= MaxRevealTime
    /\ now' = ClipToTimers(now + STAGGER)
    /\ UNCHANGED <<timers, bodyClasses, revealVars>>
    /\ UNCHANGED notReveal

-----------------------------------------------------------------------------
(* ProgressiveImageLoader (lines 586-660) *)

\* The images of querySelectorAll('img[loading="lazy"]'), in document order;
\* the first is the one whose alt text includes 'Daniel'.
Images == 1..NumImages
ImageSeq == [i \in 1..NumImages |-> i]
HasDanielAlt(img) == img = 1

\* The entries of the observer for the targets among es, in observe order.
ImgEntries(es, p) ==
    LET s == SelectSeq(ImageSeq, LAMBDA e : e \in es)
    IN  [i \in 1..Len(s) |-> [target |-> s[i], isIntersecting |-> p[s[i]] = "in"]]

\* this.observer.unobserve(target) for the targets ts (line 628).
mutant_ImgUnobserve(obs, ts) == obs
ImgUnobserve(obs, ts) == obs \ ts

\* init() (lines 592-602).  native: 'loading' in HTMLImageElement.prototype.
\* enhanceNativeLazyLoad (lines 604-620) marks every image as loading and
\* adds its listeners; setupIntersectionObserver (lines 622-637) creates the
\* observer and observes every image, and the observer reports each once.
ImgInit(native) ==
    /\ imgStrategy = "none"
    /\ imgStrategy' = IF native THEN "native" ELSE "polyfill"
    /\ IF native
       THEN /\ imgClasses' = [e \in Images |-> imgClasses[e] \cup {"loading"}]
            /\ UNCHANGED <<imgObserverCreated, imgObserved, imgBatch>>
       ELSE /\ imgObserverCreated' = TRUE
            /\ imgObserved' = Images
            /\ imgBatch' = ImgEntries(Images, imgPos)
            /\ UNCHANGED imgClasses
    /\ UNCHANGED <<imgPos, imgRequest, tempPending, loadImageCalls, srcSwaps,
                   fallbackSets, imgReentered>>
    /\ UNCHANGED <<browserVars, notImage>>

\* The page scrolls: the images of moved change sides, and the observer, if
\* there is one, queues an entry for each of its targets among them.
ImgScroll(moved) ==
    /\ imgStrategy # "none"
    /\ imgBatch = <<>>
    /\ moved # {}
    /\ imgPos' = [e \in Images |->
                     IF e \in moved
                     THEN (IF imgPos[e] = "in" THEN "out" ELSE "in")
                     ELSE imgPos[e]]
    /\ imgBatch' = ImgEntries(moved \cap imgObserved, imgPos')
    /\ imgReentered' = imgReentered \cup
                          {e \in moved : imgPos[e] = "out" /\ loadImageCalls[e] > 0}
    /\ UNCHANGED <<imgStrategy, imgObserverCreated, imgObserved, imgClasses,
                   imgRequest, tempPending, loadImageCalls, srcSwaps,
                   fallbackSets>>
    /\ UNCHANGED <<browserVars, notImage>>

\* The targets of the intersecting entries of the batch (line 626).
ImgIntersecting == {imgBatch[i].target : i \in {j \in 1..Len(imgBatch) :
                                                   imgBatch[j].isIntersecting}}

\* The number of intersecting entries of the batch for img.
ImgLoadsOf(img) ==
    Cardinality({i \in 1..Len(imgBatch) :
                    imgBatch[i].isIntersecting /\ imgBatch[i].target = img})

\* The observer's callback (lines 624-631) over the whole batch, with
\* loadImage up to the assignment of tempImg.src (lines 639-651).
ImgCallback ==
    /\ imgBatch # <<>>
    /\ imgBatch' = <<>>
    /\ imgClasses' = [e \in Images |->
                         IF e \in ImgIntersecting
                         THEN imgClasses[e] \cup {"loading"} ELSE imgClasses[e]]
    /\ tempPending' = [e \in Images |-> tempPending[e] + ImgLoadsOf(e)]
    /\ loadImageCalls' = [e \in Images |-> loadImageCalls[e] + ImgLoadsOf(e)]
    /\ imgObserved' = ImgUnobserve(imgObserved, ImgIntersecting)
    /\ UNCHANGED <<imgStrategy, imgPos, imgObserverCreated, imgRequest, srcSwaps,
                   fallbackSets, imgReentered>>
    /\ UNCHANGED <<browserVars, notImage>>

\* tempImg.onload (lines 643-647).
TempLoad(img) ==
    /\ tempPending[img] > 0
    /\ tempPending' = [tempPending EXCEPT ![img] = @ - 1]
    /\ srcSwaps' = [srcSwaps EXCEPT ![img] = @ + 1]
    /\ imgClasses' = [imgClasses EXCEPT ![img] = (@ \ {"loading"}) \cup {"loaded"}]
    /\ UNCHANGED <<imgStrategy, imgPos, imgObserverCreated, imgObserved, imgBatch,
                   imgRequest, loadImageCalls, fallbackSets, imgReentered>>
    /\ UNCHANGED <<browserVars, notImage>>

\* handleImageError (lines 655-660): the fallback source is set on the image
\* whose alt text includes 'Daniel'.
FallbackAfterError(img) ==
    IF HasDanielAlt(img) THEN [fallbackSets EXCEPT ![img] = @ + 1] ELSE fallbackSets

\* tempImg.onerror (lines 648-650).
TempError(img) ==
    /\ tempPending[img] > 0
    /\ tempPending' = [tempPending EXCEPT ![img] = @ - 1]
    /\ fallbackSets' = FallbackAfterError(img)
    /\ UNCHANGED <<imgStrategy, imgPos, imgObserverCreated, imgObserved, imgBatch,
                   imgClasses, imgRequest, loadImageCalls, srcSwaps, imgReentered>>
    /\ UNCHANGED <<browserVars, notImage>>

\* The image's load listener of the native strategy (lines 609-612).
NativeLoad(img) ==
    /\ imgStrategy = "native"
    /\ imgRequest[img] \in {"pending", "fallback"}
    /\ imgRequest' = [imgRequest EXCEPT ![img] = "done"]
    /\ imgClasses' = [imgClasses EXCEPT ![img] = (@ \ {"loading"}) \cup {"loaded"}]
    /\ UNCHANGED <<imgStrategy, imgPos, imgObserverCreated, imgObserved, imgBatch,
                   tempPending, loadImageCalls, srcSwaps, fallbackSets,
                   imgReentered>>
    /\ UNCHANGED <<browserVars, notImage>>

\* The image's error listener of the native strategy (lines 614-618); the
\* fallback source, an inline image, is then loaded by the browser.
NativeError(img) ==
    /\ imgStrategy = "native"
    /\ imgRequest[img] = "pending"
    /\ imgRequest' = [imgRequest EXCEPT
                         ![img] = IF HasDanielAlt(img) THEN "fallback" ELSE "done"]
    /\ imgClasses' = [imgClasses EXCEPT ![img] = (@ \ {"loading"}) \cup {"error"}]
    /\ fallbackSets' = FallbackAfterError(img)
    /\ UNCHANGED <<imgStrategy, imgPos, imgObserverCreated, imgObserved, imgBatch,
                   tempPending, loadImageCalls, srcSwaps, imgReentered>>
    /\ UNCHANGED <<browserVars, notImage>>

-----------------------------------------------------------------------------
(* initFormHandling, handleFormMessage (lines 750-770) and showNotification *)
(* (lines 775-838)                                                          *)

\* An origin is the sequence of the parts of its text; includes(part) is true
\* when the part occurs in it.
Origins ==
    { <<"https://", "api", ".", "leadconnectorhq.com">>,
      <<"https://", "leadconnectorhq.com", ".", "evil.example">>,
      <<"https://", "evil.example">>,
      <<"null">> }
Includes(origin, part) == \E i \in 1..Len(origin) : origin[i] = part

\* event.data: a falsy value, or a truthy one with its type property.
MessageData ==
    { [truthy |-> FALSE, type |-> "undefined"],
      [truthy |-> TRUE,  type |-> "undefined"],
      [truthy |-> TRUE,  type |-> "form-submitted"],
      [truthy |-> TRUE,  type |-> "form-opened"] }

\* The tests of handleFormMessage (lines 755, 757).
mutant_TrustedOrigin(origin) == TRUE
TrustedOrigin(origin) == Includes(origin, "leadconnectorhq.com")
mutant_IsSubmission(data) == data.truthy
IsSubmission(data) == data.truthy /\ data.type = "form-submitted"

\* initFormHandling (lines 750-752).
FormHandlingInit ==
    /\ ~fhInitDone
    /\ fhInitDone' = TRUE
    /\ UNCHANGED <<gtagDefined, toasts, toastFading, toastsShown, analyticsEvents>>
    /\ UNCHANGED <<browserVars, notToast>>

\* The analytics script defines the global gtag.
GtagLoads ==
    /\ ~gtagDefined
    /\ gtagDefined' = TRUE
    /\ UNCHANGED <<fhInitDone, toasts, toastFading, toastsShown, analyticsEvents>>
    /\ UNCHANGED <<browserVars, notToast>>

\* showNotification (lines 775-838): the first '.notification' of the
\* document is removed, a new one is appended and its timer is set.  Toasts
\* are numbered in creation order.
mutant_showNotification ==
    /\ toasts' = Append(toasts, toastsShown + 1)
    /\ toastsShown' = toastsShown + 1
    /\ timers' = SetTimeout(timers, "toastFade", TOAST_DURATION, toastsShown + 1)
showNotification ==
    /\ toasts' = Append(IF toasts # <<>> THEN Tail(toasts) ELSE toasts,
                        toastsShown + 1)
    /\ toastsShown' = toastsShown + 1
    /\ timers' = SetTimeout(timers, "toastFade", TOAST_DURATION, toastsShown + 1)

\* handleFormMessage (lines 754-770) for a message event.
Message(origin, data) ==
    /\ fhInitDone
    /\ toastsShown < MaxToasts
    /\ IF TrustedOrigin(origin) /\ IsSubmission(data)
       THEN /\ showNotification
            /\ analyticsEvents' = IF gtagDefined THEN analyticsEvents + 1
                                  ELSE analyticsEvents
       ELSE UNCHANGED <<toasts, toastsShown, timers, analyticsEvents>>
    /\ UNCHANGED <<fhInitDone, gtagDefined, toastFading>>
    /\ UNCHANGED <<now, bodyClasses, notToast>>

\* The toast's timer (lines 827-832): the slide-out starts and the removal
\* is set.
ToastFade(i) ==
    /\ IsNextTimer(i)
    /\ timers[i].kind = "toastFade"
    /\ toastFading' = toastFading \cup {timers[i].arg}
    /\ timers' = Append(RemoveAt(timers, i),
                        [kind |-> "toastRemove", due |-> now + TOAST_SLIDE_OUT,
                         arg |-> timers[i].arg])
    /\ UNCHANGED <<fhInitDone, gtagDefined, toasts, toastsShown, analyticsEvents>>
    /\ UNCHANGED <<now, bodyClasses, notToast>>

\* The removal timer (lines 829-831): notification.remove().
ToastRemove(i) ==
    /\ IsNextTimer(i)
    /\ timers[i].kind = "toastRemove"
    /\ timers' = RemoveAt(timers, i)
    /\ toasts' = SelectSeq(toasts, LAMBDA t : t # timers[i].arg)
    /\ UNCHANGED <<fhInitDone, gtagDefined, toastFading, toastsShown,
                   analyticsEvents>>
    /\ UNCHANGED <<now, bodyClasses, notToast>>

\* The toast's click listener (lines 835-838): its timer is cleared and it is
\* removed.
ToastClick(t) ==
    /\ \E k \in 1..Len(toasts) : toasts[k] = t
    /\ timers' = SelectSeq(timers, LAMBDA r : ~(r.kind = "toastFade" /\ r.arg = t))
    /\ toasts' = SelectSeq(toasts, LAMBDA u : u # t)
    /\ UNCHANGED <<fhInitDone, gtagDefined, toastFading, toastsShown,
                   analyticsEvents>>
    /\ UNCHANGED <<now, bodyClasses, notToast>>

\* Time passes, up to the next pending timer.
ToastTick ==
    /\ fhInitDone
    /\ NoTimerDue
    /\ ClipToTimers(now + ToastStep) <= MaxToastTime
    /\ now' = ClipToTimers(now + ToastStep)
    /\ UNCHANGED <<timers, bodyClasses, toastVars>>
    /\ UNCHANGED notToast

\* Time passes while a timer is pending, up to the next pending timer; the
\* browser's clock is not bounded.
ToastWait ==
    /\ timers # <<>>
    /\ NoTimerDue
    /\ now' = ClipToTimers(now + ToastStep)
    /\ UNCHANGED <<timers, bodyClasses, toastVars>>
    /\ UNCHANGED notToast

-----------------------------------------------------------------------------
(* scripts.js: updateCountdown (lines 2-16) and the load listener (lines *)
(* 35-38)                                                                *)

CountdownIds == {"hours", "minutes", "seconds"}

\* The time left to the next midnight when updateCountdown runs, in ms.
Distances == {1, 999, 1000, 59999, 60000, 3599999, 3600000, 3723000,
              43200000, 45296789, 86399999, 86400000}

\* The three numbers of lines 9-11.
mutant_HoursOf(distance) == distance \div (1000 * 60 * 60)
HoursOf(distance) == (distance % (1000 * 60 * 60 * 24)) \div (1000 * 60 * 60)
MinutesOf(distance) == (distance % (1000 * 60 * 60)) \div (1000 * 60)
SecondsOf(distance) == (distance % (1000 * 60)) \div 1000

\* n.toString().padStart(2, '0') for 0 <= n < 100, as its digits.
Pad2(n) == IF n < 10 THEN <<0, n>> ELSE <<n \div 10, n % 10>>

\* The statements of lines 13-15, in order: document.getElementById(id) is
\* null for an absent element and the assignment to its textContent throws,
\* which ends the callback.
CountdownWrites(distance) ==
    <<[id |-> "hours",   text |-> Pad2(HoursOf(distance))],
      [id |-> "minutes", text |-> Pad2(MinutesOf(distance))],
      [id |-> "seconds", text |-> Pad2(SecondsOf(distance))]>>

\* The number of writes made before one throws.
WritesMade(ws) ==
    IF \E k \in 1..Len(ws) : ws[k].id \notin cdDoc
    THEN (CHOOSE k \in 1..Len(ws) :
              /\ ws[k].id \notin cdDoc
              /\ \A j \in 1..(k - 1) : ws[j].id \in cdDoc) - 1
    ELSE Len(ws)

\* The window's load event (lines 35-38): setInterval(updateCountdown, 1000).
CountdownLoad ==
    /\ ~cdStarted
    /\ cdStarted' = TRUE
    /\ timers' = SetTimeout(timers, "countdown", COUNTDOWN_INTERVAL, 0)
    /\ UNCHANGED <<cdDoc, cdText, cdRuns, cdErrors>>
    /\ UNCHANGED <<now, bodyClasses, fpsVars, formVars, animVars, revealVars,
                   imageVars, toastVars, controllerVars,
                   networkVars, tooltipVars, cardVars>>

\* A run of updateCountdown from the interval, which stays set.
UpdateCountdown(i, distance) ==
    /\ IsNextTimer(i)
    /\ timers[i].kind = "countdown"
    /\ cdRuns < MaxCountdownRuns
    /\ timers' = SetTimeout(RemoveAt(timers, i), "countdown", COUNTDOWN_INTERVAL, 0)
    /\ LET ws == CountdownWrites(distance)
           n  == WritesMade(ws)
       IN  /\ cdText' = [id \in CountdownIds |->
                            IF \E k \in 1..n : ws[k].id = id
                            THEN ws[CHOOSE k \in 1..n : ws[k].id = id].text
                            ELSE cdText[id]]
           /\ cdErrors' = IF n < Len(ws) THEN cdErrors + 1 ELSE cdErrors
    /\ cdRuns' = cdRuns + 1
    /\ UNCHANGED <<cdDoc, cdStarted>>
    /\ UNCHANGED <<now, bodyClasses, fpsVars, formVars, animVars, revealVars,
                   imageVars, toastVars, controllerVars,
                   networkVars, tooltipVars, cardVars>>

\* Time passes to the interval's next run.
CountdownTick ==
    /\ cdStarted
    /\ NoTimerDue
    /\ cdRuns < MaxCountdownRuns
    /\ now' = ClipToTimers(now + COUNTDOWN_INTERVAL)
    /\ UNCHANGED <<timers, bodyClasses, fpsVars, formVars, animVars, revealVars,
                   imageVars, toastVars, controllerVars, countdownVars,
                   networkVars, tooltipVars, cardVars>>

-----------------------------------------------------------------------------
(* InitController.init, initCritical and initDeferred (lines 1131-1168) *)

\* The calls of init and initCritical and, after them, those of initDeferred,
\* in the order of the code.  The ticker's observer is set up with the
\* animation manager's; "loaded" is the class added to the body.
mutant_BootCalls ==
    <<"performance.start", "injectAnimationStyles", "formLoader.init",
      "initSmoothScroll", "animationManager.init", "initMobileOptimizations",
      "imageLoader.init", "scrollAnimations.init", "initCardEffects",
      "initFormHandling", "initWhatsAppTooltip", "scrollListener", "loaded">>
BootCalls ==
    <<"performance.start", "injectAnimationStyles", "formLoader.init",
      "initSmoothScroll", "initMobileOptimizations",
      "animationManager.init", "imageLoader.init", "scrollAnimations.init",
      "initCardEffects", "initFormHandling", "initWhatsAppTooltip",
      "scrollListener", "loaded">>

\* The call has been made.
Done(call) ==
    CASE call = "performance.start"       -> pmStarted
      [] call = "formLoader.init"         -> formInitDone
      [] call = "initMobileOptimizations" -> mobileInitDone
      [] call = "animationManager.init"   -> amInitDone
      [] call = "imageLoader.init"        -> imgStrategy # "none"
      [] call = "scrollAnimations.init"   -> saInitDone
      [] call = "initFormHandling"        -> fhInitDone
      [] call = "loaded"                  -> bodyLoaded
      [] OTHER                            -> call \in initialised

\* The position of the controller: the first call not made yet.
NextCall ==
    IF \E k \in 1..Len(BootCalls) : ~Done(BootCalls[k])
    THEN BootCalls[CHOOSE k \in 1..Len(BootCalls) :
                       /\ ~Done(BootCalls[k])
                       /\ \A j \in 1..(k - 1) : Done(BootCalls[j])]
    ELSE "none"

\* An initialiser that only attaches styles or listeners.
Attach(call) ==
    /\ NextCall = call
    /\ initialised' = initialised \cup {call}
    /\ UNCHANGED unloaded
    /\ UNCHANGED <<browserVars, fpsVars, formVars, animVars, revealVars,
                   imageVars, toastVars, countdownVars,
                   networkVars, tooltipVars, cardVars>>

\* init (lines 1131-1140) and initCritical (lines 1142-1148).
BootPerformance ==
    /\ NextCall = "performance.start"
    /\ \E d \in StartDelays, fd \in FrameDeltas : PMStart(d, fd)
BootStyles == Attach("injectAnimationStyles")
BootFormLoader ==
    /\ NextCall = "formLoader.init"
    /\ \E lazy \in BOOLEAN, loadedBefore \in BOOLEAN : FormInit(lazy, loadedBefore)
BootSmoothScroll == Attach("initSmoothScroll")
BootMobile ==
    /\ NextCall = "initMobileOptimizations"
    /\ \E m \in BOOLEAN : MobileInit(m)

\* initDeferred (lines 1150-1168), the idle callback init requested.
BootAnimation ==
    /\ NextCall = "animationManager.init"
    /\ InitDeferred
BootImages ==
    /\ NextCall = "imageLoader.init"
    /\ \E native \in BOOLEAN : ImgInit(native)
BootScrollAnimations ==
    /\ NextCall = "scrollAnimations.init"
    /\ SAInit
BootCardEffects == Attach("initCardEffects")
BootFormHandling ==
    /\ NextCall = "initFormHandling"
    /\ FormHandlingInit
BootTooltip == Attach("initWhatsAppTooltip")
BootScrollListener == Attach("scrollListener")
BootLoaded ==
    /\ NextCall = "loaded"
    /\ MarkLoaded

-----------------------------------------------------------------------------
(* initSmoothScroll (lines 554-581) and the writers of the body's flags *)

\* A handler of the controller is under way: init with initCritical, or
\* initDeferred.
InHandler == NextCall \notin {"performance.start", "animationManager.init", "none"}

\* The frame intervals of the display in the flags' specification.
FlagFrameDeltas == {10, 40}

\* Lines 566 and 576.
addScrolling(classes) == classes \cup {"scrolling"}
mutant_removeScrolling(classes) == classes \ {"scrolling", "reduce-animations"}
removeScrolling(classes) == classes \ {"scrolling"}

\* The times at which the user clicks an anchor link.
ClickTimes == {0, 400, 800}

\* The smooth scrolls whose timer is pending.
ScrollsPending == {i \in TimerIdx : timers[i].kind = "scrollEnd"}

\* A click on an anchor link (lines 558-579) whose href is not '#': the
\* target exists in the document or it does not.
ScrollClick(hasTarget) ==
    /\ "initSmoothScroll" \in initialised
    /\ ~InHandler
    /\ now \in ClickTimes
    /\ Cardinality(ScrollsPending) < MaxScrolls
    /\ IF hasTarget
       THEN /\ bodyClasses' = addScrolling(bodyClasses)
            /\ timers' = SetTimeout(timers, "scrollEnd", SCROLLING_TIME, 0)
       ELSE UNCHANGED <<bodyClasses, timers>>
    /\ UNCHANGED now
    /\ UNCHANGED <<fpsVars, formVars, animVars, revealVars, imageVars, toastVars,
                   controllerVars, countdownVars,
                   networkVars, tooltipVars, cardVars>>

\* The timer of a click (lines 575-577).
ScrollEnd(i) ==
    /\ IsNextTimer(i)
    /\ timers[i].kind = "scrollEnd"
    /\ ~InHandler
    /\ bodyClasses' = removeScrolling(bodyClasses)
    /\ timers' = RemoveAt(timers, i)
    /\ UNCHANGED now
    /\ UNCHANGED <<fpsVars, formVars, animVars, revealVars, imageVars, toastVars,
                   controllerVars, countdownVars,
                   networkVars, tooltipVars, cardVars>>

\* An animation frame between the handlers of the controller.
FlagFrame(fd) ==
    /\ ~InHandler
    /\ now + frameDelta <= MaxFlagTime
    /\ Frame(fd)

-----------------------------------------------------------------------------
(* InitController.cleanup (lines 1185-1190), run on beforeunload *)

\* The modules that have a cleanup method are the performance monitor (lines
\* 135-148) and the animation manager (lines 540-548).  The monitor clears
\* the intervals of its map and cancels this.rafId, which measureFPS never
\* sets; the animation manager stops its own loop and disconnects its
\* observer.  The form loader, the image loader and the scroll animations have
\* no cleanup method, so their timers stay pending.
Cleanup ==
    /\ ~unloaded
    /\ unloaded' = TRUE
    /\ UNCHANGED initialised
    /\ observed' = {}
    /\ amBatch' = <<>>
    /\ UNCHANGED <<docKind, pos, amInitDone, dataAnimation, animationId, tkBatch,
                   playState, animationRegistry, animationsRunning, hovering,
                   objPaused, dropped>>
    /\ UNCHANGED <<browserVars, fpsVars, formVars, revealVars, imageVars,
                   toastVars, countdownVars,
                   networkVars, tooltipVars, cardVars>>

-----------------------------------------------------------------------------
(* Initial states and specifications *)

InitBrowser ==
    /\ now = 0
    /\ timers = <<>>
    /\ bodyClasses = {}

InitFps ==
    /\ pmStarted = FALSE
    /\ frameCount = 0
    /\ lastFrameTime = 0
    /\ fps = FPS_INITIAL
    /\ frameDelta = 0
    /\ mobileInitDone = FALSE
    /\ bodyLoaded = FALSE

InitForm ==
    /\ formDoc \in {"none", "container", "both"}
    /\ formInitDone = FALSE
    /\ startTime = 0
    /\ skeletonRemoved = FALSE
    /\ loadAttempts = 0
    /\ isLoaded = FALSE
    /\ formLoadedClass = FALSE
    /\ skeleton = "none"
    /\ skeletonText = "loading"
    /\ iframeOpacity = ""
    /\ request = "none"
    /\ reloads = 0
    /\ loadEvents = 0
    /\ errorEvents = 0
    /\ errorsBeforeTimeout = 0
    /\ timeoutFired = FALSE
    /\ errorStateRuns = 0
    /\ reloadsAfterError = 0
    /\ removedAt = -1
    /\ attemptStart = 0

InitAnim ==
    /\ docKind \in DocKinds
    /\ pos \in {p \in [Elements -> {"out", "near", "in"}] :
                   \A e \in Elements : p[e] \in Positions(e)}
    /\ amInitDone = FALSE
    /\ dataAnimation = {e \in Elements : docKind[e] \in {"S", "B"}}
    /\ animationId = [e \in Elements |-> "undefined"]
    /\ observed = {}
    /\ amBatch = <<>>
    /\ tkBatch = <<>>
    /\ playState = [e \in Elements |-> ""]
    /\ animationRegistry = <<>>
    /\ animationsRunning = 0
    /\ hovering = FALSE
    /\ objPaused = FALSE
    /\ dropped = {}

\* The animation widgets are not part of the run.
NoAnim ==
    /\ InitAnim
    /\ docKind = [e \in Elements |-> "O"]
    /\ pos = [e \in Elements |-> "out"]

InitReveal ==
    /\ saInitDone = FALSE
    /\ saPos \in [RevealElements -> {"out", "in"}]
    /\ saObserved = {}
    /\ saBatch = <<>>
    /\ animatedElements = {}
    /\ visible = {}
    /\ revealsScheduled = [e \in RevealElements |-> 0]
    /\ visibleAdds = [e \in RevealElements |-> 0]
    /\ reentered = {}

\* The reveal animator is not part of the run.
NoReveal ==
    /\ InitReveal
    /\ saPos = [e \in RevealElements |-> "out"]

InitImage ==
    /\ imgStrategy = "none"
    /\ imgPos \in [Images -> {"out", "in"}]
    /\ imgObserverCreated = FALSE
    /\ imgObserved = {}
    /\ imgBatch = <<>>
    /\ imgClasses = [e \in Images |-> {}]
    /\ imgRequest = [e \in Images |-> "pending"]
    /\ tempPending = [e \in Images |-> 0]
    /\ loadImageCalls = [e \in Images |-> 0]
    /\ srcSwaps = [e \in Images |-> 0]
    /\ fallbackSets = [e \in Images |-> 0]
    /\ imgReentered = {}

\* The image loader is not part of the run.
NoImage ==
    /\ InitImage
    /\ imgPos = [e \in Images |-> "out"]

InitToast ==
    /\ fhInitDone = FALSE
    /\ gtagDefined \in BOOLEAN
    /\ toasts = <<>>
    /\ toastFading = {}
    /\ toastsShown = 0
    /\ analyticsEvents = 0

\* The message handler is not part of the run.
NoToast ==
    /\ InitToast
    /\ gtagDefined = FALSE

InitController ==
    /\ unloaded = FALSE
    /\ initialised = {}

InitCountdown ==
    /\ cdDoc \in SUBSET CountdownIds
    /\ cdStarted = FALSE
    /\ cdText = [id \in CountdownIds |-> <<>>]
    /\ cdRuns = 0
    /\ cdErrors = 0

InitNetwork ==
    /\ netSupported \in BOOLEAN
    /\ netStarted = FALSE
    /\ effectiveType \in EffectiveTypes
    /\ networkSpeed = "high"
    /\ changeListeners = 0
    /\ netChanges = 0
    /\ evaluations = 0

InitTooltip ==
    /\ tipDoc \in BOOLEAN
    /\ tipInitDone = FALSE
    /\ tooltipShown = FALSE
    /\ tipOpacity = ""
    /\ tipDisplayed = FALSE
    /\ pageLoads = 1
    /\ loadsDisplayed = 0

\* The countdown is not part of the run.
NoCountdown ==
    /\ InitCountdown
    /\ cdDoc = CountdownIds

\* No card has received an event: the style sheet positions it.
InitCards ==
    cards = [c \in Cards |-> [transform |-> "", isAnimating |-> FALSE,
                              direction |-> "none", hovering |-> FALSE,
                              touching |-> FALSE, lastEvent |-> "none"]]

\* The browser has no navigator.connection.
NoNetwork ==
    /\ InitNetwork
    /\ netSupported = FALSE
    /\ effectiveType = "4g"

\* The tooltip is not part of the run.
NoTooltip == InitTooltip /\ tipDoc = FALSE

vars == <<browserVars, fpsVars, formVars, animVars, revealVars, imageVars,
          toastVars, controllerVars, countdownVars, networkVars, tooltipVars, cardVars>>


\* The frame-rate sampler and the other writers of the body's class list.
InitSpecFps ==
    InitBrowser /\ InitController /\ NoCountdown /\ NoNetwork /\ NoTooltip /\ InitCards
    /\ InitFps /\ InitForm /\ formDoc = "none" /\ NoAnim /\ NoReveal
    /\ NoImage /\ NoToast

NextFps ==
    \/ \E d \in StartDelays, fd \in FrameDeltas : PMStart(d, fd)
    \/ \E fd \in FrameDeltas : Frame(fd)
    \/ \E m \in BOOLEAN : MobileInit(m)
    \/ MarkLoaded

SpecFps == InitSpecFps /\ [][NextFps]_vars

\* The form loader, its timers and the iframe's events.
InitSpecForm == InitBrowser /\ InitController /\ NoCountdown /\ NoNetwork /\ NoTooltip /\ InitCards
    /\ InitFps /\ InitForm /\ NoAnim /\ NoReveal
    /\ NoImage /\ NoToast

NextForm ==
    \/ \E lazy \in BOOLEAN, loadedBefore \in BOOLEAN : FormInit(lazy, loadedBefore)
    \/ IframeLoad
    \/ IframeError
    \/ \E i \in TimerIdx : LoadTimeout(i)
    \/ \E i \in TimerIdx : RetryLoad(i)
    \/ \E i \in TimerIdx : RemoveSkeleton(i)
    \/ \E i \in TimerIdx : FadeOut(i)
    \/ Tick

SpecForm == InitSpecForm /\ [][NextForm]_vars

\* The form loader under fair delivery of timers: a timer that is due is
\* run and the clock advances to the next pending timer.  The iframe's events
\* have no fairness: a load attempt may never answer.
NextFormLive ==
    \/ \E lazy \in BOOLEAN, loadedBefore \in BOOLEAN : FormInit(lazy, loadedBefore)
    \/ IframeLoad
    \/ IframeError
    \/ \E i \in TimerIdx : LoadTimeout(i)
    \/ \E i \in TimerIdx : RetryLoad(i)
    \/ \E i \in TimerIdx : RemoveSkeleton(i)
    \/ \E i \in TimerIdx : FadeOut(i)
    \/ Wait

TimerDelivery ==
    /\ WF_vars(Wait)
    /\ WF_vars(\E i \in TimerIdx : LoadTimeout(i))
    /\ WF_vars(\E i \in TimerIdx : RetryLoad(i))
    /\ WF_vars(\E i \in TimerIdx : RemoveSkeleton(i))
    /\ WF_vars(\E i \in TimerIdx : FadeOut(i))

SpecFormLive == InitSpecForm /\ [][NextFormLive]_vars /\ TimerDelivery

\* The animation manager and the ticker, driven by the page's scrolling and
\* the pointer.
InitSpecAnim ==
    InitBrowser /\ InitController /\ NoCountdown /\ NoNetwork /\ NoTooltip /\ InitCards
    /\ InitFps /\ InitForm /\ formDoc = "none" /\ InitAnim /\ NoReveal
    /\ NoImage /\ NoToast

NextAnim ==
    \/ InitDeferred
    \/ \E e \in Elements : \E p \in Positions(e) : Scroll(e, p)
    \/ AMEntry
    \/ TickerEntry
    \/ TickerMouseEnter
    \/ TickerMouseLeave

SpecAnim == InitSpecAnim /\ [][NextAnim]_vars

\* The monitor's registry with all its callers: the animation manager's
\* observer and calls made through the debug surface.
InitSpecRegistry ==
    InitBrowser /\ InitController /\ NoCountdown /\ NoNetwork /\ NoTooltip /\ InitCards
    /\ InitFps /\ InitForm /\ formDoc = "none" /\ InitAnim /\ NoReveal
    /\ NoImage /\ NoToast

NextRegistry ==
    \/ InitDeferred
    \/ \E e \in Elements : \E p \in Positions(e) : Scroll(e, p)
    \/ AMEntry
    \/ TickerEntry
    \/ \E id \in DirectIds, a \in DirectAnimations : DirectRegister(id, a)
    \/ \E id \in DirectIds : DirectPause(id)

SpecRegistry == InitSpecRegistry /\ [][NextRegistry]_vars

\* The reveal animator, its timers and the page's scrolling.
InitSpecReveal ==
    InitBrowser /\ InitController /\ NoCountdown /\ NoNetwork /\ NoTooltip /\ InitCards
    /\ InitFps /\ InitForm /\ formDoc = "none" /\ NoAnim /\ InitReveal
    /\ NoImage /\ NoToast

NextReveal ==
    \/ SAInit
    \/ \E moved \in SUBSET RevealElements : SAScroll(moved)
    \/ SACallback
    \/ \E i \in TimerIdx : RevealTimer(i)
    \/ SATick

SpecReveal == InitSpecReveal /\ [][NextReveal]_vars

\* The image loader, the page's scrolling and the images' events.
InitSpecImage ==
    /\ InitBrowser /\ InitController /\ NoCountdown /\ NoNetwork /\ NoTooltip /\ InitCards
    /\ InitFps /\ InitForm /\ formDoc = "none" /\ NoAnim
    /\ NoReveal /\ InitImage /\ NoToast

NextImage ==
    \/ \E native \in BOOLEAN : ImgInit(native)
    \/ \E moved \in SUBSET Images : ImgScroll(moved)
    \/ ImgCallback
    \/ \E img \in Images : TempLoad(img)
    \/ \E img \in Images : TempError(img)
    \/ \E img \in Images : NativeLoad(img)
    \/ \E img \in Images : NativeError(img)

SpecImage == InitSpecImage /\ [][NextImage]_vars

\* The message handler and the notifications.
InitSpecToast ==
    /\ InitBrowser /\ InitController /\ NoCountdown /\ NoNetwork /\ NoTooltip /\ InitCards
    /\ InitFps /\ InitForm /\ formDoc = "none" /\ NoAnim
    /\ NoReveal /\ NoImage /\ InitToast

NextToast ==
    \/ FormHandlingInit
    \/ GtagLoads
    \/ \E origin \in Origins, data \in MessageData : Message(origin, data)
    \/ \E i \in TimerIdx : ToastFade(i)
    \/ \E i \in TimerIdx : ToastRemove(i)
    \/ \E t \in 1..MaxToasts : ToastClick(t)
    \/ ToastTick

SpecToast == InitSpecToast /\ [][NextToast]_vars

\* The notifications under fair delivery of timers: a timer that is due is
\* run and the clock advances to the next pending timer.  Messages and
\* clicks have no fairness.
NextToastLive ==
    \/ FormHandlingInit
    \/ GtagLoads
    \/ \E origin \in Origins, data \in MessageData : Message(origin, data)
    \/ \E i \in TimerIdx : ToastFade(i)
    \/ \E i \in TimerIdx : ToastRemove(i)
    \/ \E t \in 1..MaxToasts : ToastClick(t)
    \/ ToastWait

SpecToastLive ==
    /\ InitSpecToast
    /\ [][NextToastLive]_vars
    /\ WF_vars(ToastWait)
    /\ WF_vars(\E i \in TimerIdx : ToastFade(i))
    /\ WF_vars(\E i \in TimerIdx : ToastRemove(i))

\* The form loader's timers and the page's unload.
InitSpecUnload ==
    /\ InitBrowser /\ InitController /\ NoCountdown /\ NoNetwork /\ NoTooltip /\ InitCards
    /\ InitFps /\ InitForm /\ formDoc = "both"
    /\ NoAnim /\ NoReveal /\ NoImage /\ NoToast

NextUnload ==
    \/ \E lazy \in BOOLEAN, loadedBefore \in BOOLEAN : FormInit(lazy, loadedBefore)
    \/ IframeLoad
    \/ IframeError
    \/ \E i \in TimerIdx : LoadTimeout(i)
    \/ \E i \in TimerIdx : RetryLoad(i)
    \/ \E i \in TimerIdx : RemoveSkeleton(i)
    \/ \E i \in TimerIdx : FadeOut(i)
    \/ Tick
    \/ Cleanup

SpecUnload == InitSpecUnload /\ [][NextUnload]_vars

\* The controller's boot, with every element in the viewport.
InitSpecBoot ==
    /\ InitBrowser /\ InitController /\ NoCountdown /\ NoNetwork /\ NoTooltip /\ InitCards
    /\ InitFps /\ InitForm /\ InitAnim
    /\ InitReveal /\ InitImage /\ InitToast
    /\ pos = [e \in Elements |-> "in"]
    /\ saPos = [e \in RevealElements |-> "in"]
    /\ imgPos = [img \in Images |-> "in"]

NextBoot ==
    \/ BootPerformance
    \/ BootStyles
    \/ BootFormLoader
    \/ BootSmoothScroll
    \/ BootMobile
    \/ BootAnimation
    \/ BootImages
    \/ BootScrollAnimations
    \/ BootCardEffects
    \/ BootFormHandling
    \/ BootTooltip
    \/ BootScrollListener
    \/ BootLoaded

SpecBoot == InitSpecBoot /\ [][NextBoot]_vars

\* The writers of the body's flags: the frame-rate sampler, the mobile
\* optimisation and the smooth scroll, after the controller's init.
InitSpecFlags ==
    /\ InitBrowser /\ InitController /\ NoCountdown /\ NoNetwork /\ NoTooltip /\ InitCards
    /\ InitFps /\ InitForm
    /\ formDoc = "none" /\ NoAnim /\ NoReveal /\ NoImage /\ NoToast

NextFlags ==
    \/ BootPerformance
    \/ BootStyles
    \/ BootFormLoader
    \/ BootSmoothScroll
    \/ BootMobile
    \/ \E fd \in FlagFrameDeltas : FlagFrame(fd)
    \/ \E hasTarget \in BOOLEAN : ScrollClick(hasTarget)
    \/ \E i \in TimerIdx : ScrollEnd(i)

SpecFlags == InitSpecFlags /\ [][NextFlags]_vars

\* The countdown of scripts.js, over every subset of its elements.
InitSpecCountdown ==
    /\ InitBrowser /\ InitController /\ InitCountdown /\ NoNetwork /\ NoTooltip /\ InitCards
    /\ InitFps /\ InitForm
    /\ formDoc = "none" /\ NoAnim /\ NoReveal /\ NoImage /\ NoToast

NextCountdown ==
    \/ CountdownLoad
    \/ \E i \in TimerIdx, distance \in Distances : UpdateCountdown(i, distance)
    \/ CountdownTick

SpecCountdown == InitSpecCountdown /\ [][NextCountdown]_vars

\* The monitor's network-speed estimate and the connection's change events.
InitSpecNetwork ==
    /\ InitBrowser /\ InitController /\ NoCountdown /\ InitNetwork /\ NoTooltip /\ InitCards
    /\ InitFps /\ InitForm /\ formDoc = "none" /\ NoAnim /\ NoReveal
    /\ NoImage /\ NoToast

NextNetwork ==
    \/ NetStart
    \/ \E t \in EffectiveTypes : NetChange(t)

SpecNetwork == InitSpecNetwork /\ [][NextNetwork]_vars

\* The WhatsApp tooltip over the page loads of one tab.
InitSpecTooltip ==
    /\ InitBrowser /\ InitController /\ NoCountdown /\ NoNetwork /\ InitTooltip /\ InitCards
    /\ InitFps /\ InitForm /\ formDoc = "none" /\ NoAnim /\ NoReveal
    /\ NoImage /\ NoToast

NextTooltip ==
    \/ TooltipInit
    \/ \E i \in TimerIdx : TipShow(i)
    \/ \E i \in TimerIdx : TipHide(i)
    \/ Reload
    \/ TipTick

SpecTooltip == InitSpecTooltip /\ [][NextTooltip]_vars

\* The cards' hover and touch effects.
InitSpecCards ==
    /\ InitBrowser /\ InitController /\ NoCountdown /\ NoNetwork /\ NoTooltip /\ InitCards
    /\ InitFps /\ InitForm /\ formDoc = "none" /\ NoAnim /\ NoReveal
    /\ NoImage /\ NoToast

NextCards ==
    \/ \E c \in Cards, ev \in CardEvents : CardEvent(c, ev)
    \/ CardFrame

SpecCards == InitSpecCards /\ [][NextCards]_vars

-----------------------------------------------------------------------------
(* The claims *)

\* C1: immediately after every measurement window of measureFPS, a computed
\* fps below 30 leaves 'reduce-animations' on the body, an fps above 50
\* leaves it off, and an fps in [30,50] leaves it as it was before the window
\* closed.  A step closes a window exactly when it moves lastFrameTime.
C1_FpsThresholds ==
    [][lastFrameTime' # lastFrameTime =>
          /\ (fps' < 30 => "reduce-animations" \in bodyClasses')
          /\ (fps' > 50 => "reduce-animations" \notin bodyClasses')
          /\ (fps' >= 30 /\ fps' <= 50 =>
                 ("reduce-animations" \in bodyClasses'
                     <=> "reduce-animations" \in bodyClasses))]_vars

\* A window has just closed with an fps in [30,50] and the class, set by an
\* earlier window, is still there, among the classes of the other widgets.
C1_Witness ==
    /\ pmStarted
    /\ now > 0
    /\ lastFrameTime = now
    /\ fps >= 30 /\ fps <= 50
    /\ {"reduce-animations", "reduce-effects", "loaded"} \subseteq bodyClasses

\* C2: skeleton.remove() never runs earlier than SKELETON_MIN_DISPLAY (800 ms)
\* after loadForm took its startTime, whatever the load duration and the
\* number of retries before the load.
C2_SkeletonMinDisplay ==
    removedAt # -1 => removedAt >= startTime + 800

\* The load event came within the first 800 ms (a 0 ms load among them):
\* the placeholder went 800 + 300 ms after loadForm started.
C2_Witness ==
    /\ skeleton = "removed"
    /\ removedAt = startTime + 800 + 300

\* C3: showErrorState runs at most once in the whole execution and no retry
\* reload follows it.
C3_FailureOnce ==
    /\ errorStateRuns <= 1
    /\ reloadsAfterError = 0

\* The scenario of C4: three error events handled before the load timeout
\* ran, and no load event.
ThreeFailedLoads == errorsBeforeTimeout >= 3 /\ loadEvents = 0

\* No retry timer is pending.
NoRetryPending == \A i \in TimerIdx : timers[i].kind # "retry"

\* C4 as stated: three consecutive failed loads within the timeout window
\* give exactly 3 retry reloads, then the failure message, and no load
\* attempt afterwards.
C4_ThreeRetries ==
    ThreeFailedLoads =>
        /\ reloads = 3
        /\ SkeletonInDom /\ skeletonText = "error"
        /\ request = "none" /\ NoRetryPending

\* C4 amended: three consecutive failed loads within the timeout window are
\* the initial load and exactly 2 retry reloads (maxAttempts = 3 load
\* attempts in all); the failure message is then rendered and no load attempt
\* is pending or follows, also once the timeout has run.
C4_TwoRetries ==
    ThreeFailedLoads =>
        /\ reloads = 2
        /\ errorStateRuns >= 1
        /\ SkeletonInDom /\ skeletonText = "error"
        /\ request = "none" /\ NoRetryPending

\* Three loads have failed and, later, the load timeout has run.
C4_Witness == ThreeFailedLoads /\ timeoutFired

\* An element's CSS animation is playing: its play state is 'running', or was
\* never set.
Playing(e) == playState[e] \in {"", "running"}

\* C5: once the observers have delivered their entries, at most
\* MAX_CONCURRENT_ANIMATIONS (3) of the elements flagged as animated are
\* playing, whatever the notifications were, elements inside the viewport
\* when observation starts and the ticker included.
C5_AnimationBudget ==
    amInitDone /\ Idle =>
        Cardinality({e \in dataAnimation : Playing(e)}) <= 3

\* The entry the visibilityObserver's callback is about to handle.
EntryTarget == Head(amBatch).target
EntryId == animationId[Head(amBatch).target]
Enters == AMEntry /\ Head(amBatch).isIntersecting
Leaves == AMEntry /\ ~Head(amBatch).isIntersecting

\* resumeAnimation left the element and the registry as they were.
RequestDropped ==
    /\ playState' = playState
    /\ animationRegistry' = animationRegistry

\* The part of C6 about the grant: an enter notification sets the element
\* running and registers it only if the registry holds fewer than 3 entries;
\* with 3 entries the play state and the registry are left unchanged.
C6_GrantOnlyUnderCap ==
    [][Enters =>
          /\ (~RequestDropped =>
                 /\ Len(animationRegistry) < 3
                 /\ playState'[EntryTarget] = "running"
                 /\ RegHas(animationRegistry', EntryId))
          /\ (Len(animationRegistry) >= 3 => RequestDropped)]_vars

\* C6: an enter notification sets the element running and registers it only
\* if the registry holds fewer than 3 entries; otherwise the request is
\* dropped: play state and registry are unchanged and the element is paused.
C6_ResumeUnderCap ==
    [][Enters =>
          /\ (~RequestDropped =>
                 /\ Len(animationRegistry) < 3
                 /\ playState'[EntryTarget] = "running"
                 /\ RegHas(animationRegistry', EntryId))
          /\ (Len(animationRegistry) >= 3 =>
                 /\ RequestDropped
                 /\ playState'[EntryTarget] = "paused")]_vars

\* A step that calls registerAnimation(id, a): a direct call, or a granted
\* resumeAnimation.
Registers(id, a) ==
    \/ DirectRegister(id, a)
    \/ Enters /\ UnderBudget /\ id = EntryId /\ a = EntryTarget

\* The animation a is paused after the step.
PausedNext(a) == IF HasPause(a) THEN objPaused' ELSE playState'[a] = "paused"

\* The part of C7 about the order: a registration in a registry of 3 entries
\* evicts exactly the entry inserted earliest and keeps the others in order.
C7_FifoEviction ==
    [][\A id \in DirectIds \cup {OptId(e) : e \in Elements} \cup {"undefined"},
          a \in DirectAnimations \cup Elements :
          Registers(id, a) /\ Len(animationRegistry) >= 3 =>
              animationRegistry' = RegSet(Tail(animationRegistry), id, a)]_vars

\* C7: a registration in a registry that holds 3 entries evicts exactly the
\* entry inserted earliest, and the evicted animation is paused.
C7_FifoEvictionPauses ==
    [][\A id \in DirectIds \cup {OptId(e) : e \in Elements} \cup {"undefined"},
          a \in DirectAnimations \cup Elements :
          Registers(id, a) /\ Len(animationRegistry) >= 3 =>
              /\ animationRegistry' = RegSet(Tail(animationRegistry), id, a)
              /\ PausedNext(animationRegistry[1].animation)]_vars

\* C8: after a leave notification the element's play state is 'paused' and
\* its animation id is not in the registry, whatever the budget and whether
\* its last activation was granted or dropped.
C8_LeaveDeactivates ==
    [][Leaves =>
          /\ playState'[EntryTarget] = "paused"
          /\ ~RegHas(animationRegistry', EntryId)]_vars

\* An element whose activation was dropped, the registry being full, has left
\* the viewport and its leave notification has been handled, the registry
\* still full.
C8_Witness ==
    /\ amInitDone /\ Idle
    /\ Len(animationRegistry) = 3
    /\ \E e \in observed \cap dropped :
           /\ ~AMIntersects(pos[e])
           /\ playState[e] = "paused"
           /\ ~RegHas(animationRegistry, animationId[e])

\* C9: once AnimationManager.init has run, every element flagged as animated,
\* those optimizeExistingAnimations flags included, is a target of the
\* visibilityObserver.
C9_AllFlaggedObserved ==
    amInitDone => dataAnimation \subseteq observed
\* C10: the reveal animator sets at most one reveal timer per element and
\* adds the class 'visible' to it at most once, also when the element comes
\* back into the viewport before its timer has run.
C10_RevealOnce ==
    \A e \in RevealElements :
        /\ revealsScheduled[e] <= 1
        /\ visibleAdds[e] <= 1

\* An element left and came back into the viewport while its reveal timer was
\* pending; the timer has run since and the element is visible.
C10_Witness ==
    \E e \in reentered :
        /\ e \in visible
        /\ saPos[e] = "in"
        /\ revealsScheduled[e] = 1
        /\ visibleAdds[e] = 1
\* C11: every load attempt, the first and each retry, has its own deadline
\* of FORM_LOAD_TIMEOUT (10000 ms) from its start: while the attempt is
\* pending a timeout is set for that deadline, and the timeout callback
\* treats an attempt as failed only at the attempt's deadline.
C11_DeadlinePerAttempt ==
    /\ [](request = "pending" /\ ~isLoaded /\ now < attemptStart + 10000 =>
             \E i \in TimerIdx :
                 /\ timers[i].kind = "loadTimeout"
                 /\ timers[i].due = attemptStart + 10000)
    /\ [][(\E i \in TimerIdx : LoadTimeout(i)) /\ ~isLoaded =>
             now = attemptStart + 10000]_vars
\* C12: once showErrorState has run the loader stays failed: no later step
\* marks the form loaded, starts a load attempt, changes or removes the
\* placeholder with the failure message, or reveals the iframe.
C12_FailureTerminal ==
    [][errorStateRuns >= 1 =>
          /\ isLoaded' = isLoaded
          /\ formLoadedClass' = formLoadedClass
          /\ (request' = "pending" => request = "pending")
          /\ skeleton' = skeleton
          /\ skeletonText' = skeletonText
          /\ iframeOpacity' = iframeOpacity]_vars
\* C13: whatever the error events, timeout firings and load events, the
\* loader makes at most maxAttempts (3) automatic retry reloads, and each
\* retry reload runs exactly 2000 ms after the failure that set its timer.
C13_RetriesBounded ==
    /\ [](reloads <= 3)
    /\ [][\A i \in TimerIdx :
             RetryLoad(i) => now = timers[i].arg + 2000]_vars

\* A timeout failure, a retry that failed with an error event and a second
\* retry that loaded: both retries were made.
C13_Witness ==
    /\ reloads = 2
    /\ timeoutFired
    /\ errorEvents >= 1
    /\ loadEvents >= 1
\* C14: with the polyfilled strategy loadImage is called at most once per
\* image and its source is swapped at most once, whatever the later viewport
\* entries; with the native strategy there is no observer, loadImage is
\* never called and no source is swapped.
C14_LoadOnce ==
    \A img \in Images :
        /\ loadImageCalls[img] <= 1
        /\ srcSwaps[img] <= 1
        /\ imgStrategy = "native" =>
               /\ ~imgObserverCreated
               /\ imgObserved = {}
               /\ loadImageCalls[img] = 0
               /\ srcSwaps[img] = 0

\* An image was loaded on its first intersection, left the viewport and came
\* back: it was loaded once.
C14_Witness ==
    /\ imgStrategy = "polyfill"
    /\ imgBatch = <<>>
    /\ \E img \in imgReentered :
           /\ imgPos[img] = "in"
           /\ loadImageCalls[img] = 1
           /\ srcSwaps[img] = 1
\* C15: a message creates a toast only if its origin contains
\* 'leadconnectorhq.com' and its data has type 'form-submitted'; a message
\* that fails either test changes nothing; the analytics event is reported
\* only when gtag is defined.
C15_MessageFilter ==
    [][\A origin \in Origins, data \in MessageData :
          Message(origin, data) =>
              LET accepted ==
                      /\ \E i \in 1..Len(origin) : origin[i] = "leadconnectorhq.com"
                      /\ data.truthy /\ data.type = "form-submitted"
              IN  /\ toastsShown' # toastsShown => accepted
                  /\ ~accepted => UNCHANGED <<toastVars, timers>>
                  /\ analyticsEvents' # analyticsEvents => accepted /\ gtagDefined
                  /\ accepted => toastsShown' = toastsShown + 1]_vars

\* Accepted messages arrived before and after gtag was defined: the later
\* ones were reported, and the latest toast is in the document.
C15_Witness ==
    /\ toastsShown = 2
    /\ analyticsEvents = 1
    /\ toasts = <<2>>
\* C16: after controller.cleanup has run, no timer callback of the form
\* loader runs again: its timeout, retry and skeleton timers were cancelled.
C16_NoCallbackAfterCleanup ==
    [][unloaded =>
          ~ \E i \in TimerIdx :
                \/ LoadTimeout(i)
                \/ RetryLoad(i)
                \/ RemoveSkeleton(i)
                \/ FadeOut(i)]_vars
\* The initialisers of the critical path and of the deferred path have run.
CriticalDone ==
    /\ pmStarted /\ formInitDone /\ mobileInitDone
    /\ {"injectAnimationStyles", "initSmoothScroll"} \subseteq initialised
DeferredStarted ==
    \/ amInitDone \/ imgStrategy # "none" \/ saInitDone \/ fhInitDone
    \/ initialised \cap {"initCardEffects", "initWhatsAppTooltip"} # {}
DeferredDone ==
    /\ amInitDone /\ imgStrategy # "none" /\ saInitDone /\ fhInitDone
    /\ {"initCardEffects", "initWhatsAppTooltip"} \subseteq initialised

\* C17: the performance monitor is started before any initialiser runs, no
\* deferred widget is initialised before the whole critical path has run, and
\* the body gets the class 'loaded' only after every deferred widget was
\* initialised.
C17_BootOrder ==
    /\ formInitDone \/ mobileInitDone \/ initialised # {} => pmStarted
    /\ DeferredStarted => CriticalDone
    /\ "loaded" \in bodyClasses => DeferredDone /\ CriticalDone

\* The boot has finished on a mobile device with the form present.
C17_Witness ==
    /\ "loaded" \in bodyClasses
    /\ "reduce-effects" \in bodyClasses
    /\ formDoc = "both"
    /\ DeferredDone
\* C18: whichever of its elements the document lacks, a run of
\* updateCountdown completes without raising an error.
C18_NoCallbackRaises == cdErrors = 0
\* C19: the callback sets, for an intersecting entry, a timer due 50 ms
\* times the entry's index in the batch later, and unobserves its element for
\* good; the element gets 'visible' when that timer is due, and no reveal
\* timer runs while one due earlier is pending.  The timers of one batch
\* being due in the order of its entries, its elements get 'visible' in that
\* order.
C19_StaggeredReveal ==
    /\ [](\A e \in RevealElements :
             RevealPending(e) \/ e \in visible => e \notin saObserved)
    /\ [][SACallback =>
             \A k \in 1..Len(saBatch) :
                 Reveals(k) =>
                     /\ saBatch[k].target \notin saObserved'
                     /\ \E i \in 1..Len(timers') :
                            /\ timers'[i].kind = "reveal"
                            /\ timers'[i].arg = saBatch[k].target
                            /\ timers'[i].due = now + 50 * (k - 1)]_vars
    /\ [][\A i \in TimerIdx :
             RevealTimer(i) =>
                 /\ now = timers[i].due
                 /\ timers[i].arg \in visible'
                 /\ \A j \in TimerIdx :
                        timers[j].kind = "reveal" => timers[j].due >= timers[i].due]_vars

\* The first batch has revealed the first element at once and left the timer
\* of the third pending for 100 ms, its entry being the third; 50 ms later
\* the timer of the second is also pending.
C19_Witness ==
    /\ visible = {1}
    /\ now = 50
    /\ \E i, j \in TimerIdx :
          /\ timers[i].kind = "reveal" /\ timers[i].arg = 3 /\ timers[i].due = 100
          /\ timers[j].kind = "reveal" /\ timers[j].arg = 2 /\ timers[j].due = 50

\* The flag is added or removed by the step.
FlagChanges(flag) == (flag \in bodyClasses') # (flag \in bodyClasses)

\* The steps of the three writers.
SamplerStep ==
    \/ \E d \in StartDelays, fd \in FrameDeltas : PMStart(d, fd)
    \/ \E fd \in FrameDeltas : Frame(fd)
MobileStep == \E m \in BOOLEAN : MobileInit(m)
SmoothScrollStep ==
    \/ \E hasTarget \in BOOLEAN : ScrollClick(hasTarget)
    \/ \E i \in TimerIdx : ScrollEnd(i)

\* C20: 'reduce-animations' changes only in a step of the frame-rate sampler,
\* 'reduce-effects' is added only by the mobile optimisation and never
\* removed, 'scrolling' changes only in a step of the smooth scroll (its click
\* handler and the timer it sets), and a step of one writer leaves the flags
\* of the other two as they are.
C20_FlagWriters ==
    [][/\ FlagChanges("reduce-animations") => SamplerStep
       /\ FlagChanges("reduce-effects") => MobileStep
       /\ "reduce-effects" \in bodyClasses => "reduce-effects" \in bodyClasses'
       /\ FlagChanges("scrolling") => SmoothScrollStep
       /\ SamplerStep =>
              ~FlagChanges("reduce-effects") /\ ~FlagChanges("scrolling")
       /\ MobileStep =>
              ~FlagChanges("reduce-animations") /\ ~FlagChanges("scrolling")
       /\ SmoothScrollStep =>
              ~FlagChanges("reduce-animations") /\ ~FlagChanges("reduce-effects")
      ]_vars

\* The sampler and the mobile optimisation have set their flags, and the
\* timer of a first smooth scroll has removed 'scrolling' while the timer of
\* a second is pending.
C20_Witness ==
    /\ {"reduce-animations", "reduce-effects"} \subseteq bodyClasses
    /\ "scrolling" \notin bodyClasses
    /\ Cardinality(ScrollsPending) = 1
\* C21: metrics.animationsRunning equals the number of entries of the
\* animation registry.
C21_CounterMatchesRegistry == animationsRunning = Len(animationRegistry)

\* C22: an enter notification that finds fewer than 3 entries in the registry
\* is granted: the element is set running and its id is registered.
C22_GrantUnderCap ==
    [][Enters /\ Len(animationRegistry) < 3 =>
          /\ playState'[EntryTarget] = "running"
          /\ RegHas(animationRegistry', EntryId)]_vars

\* C23: the animation registry never holds more than 3 entries.
C23_RegistryCapped == Len(animationRegistry) <= 3

\* The registry is full, with entries set by the animation manager and by a
\* direct call, after an entry was evicted or paused through the registry.
C23_Witness ==
    /\ Len(animationRegistry) = 3
    /\ RegHas(animationRegistry, "dbg")
    /\ \E e \in Elements : RegHas(animationRegistry, OptId(e))
    /\ objPaused

\* The number of retry timers among the timers ts.
RetryTimers(ts) == Cardinality({i \in 1..Len(ts) : ts[i].kind = "retry"})

\* C24: once the load event has been handled, no step increments the attempt
\* counter, sets a retry timer or renders the failure message.
C24_LoadedAbsorbing ==
    [][isLoaded =>
          /\ loadAttempts' = loadAttempts
          /\ RetryTimers(timers') <= RetryTimers(timers)
          /\ errorStateRuns' = errorStateRuns
          /\ skeletonText' # skeletonText => skeletonText' # "error"]_vars


\* loadForm has run on a document that holds the container and the iframe.
LoaderStarted == formInitDone /\ formDoc = "both"

\* The loader is Loaded (handleLoad ran) or Failed (showErrorState ran).
LoaderSettled == isLoaded \/ errorStateRuns > 0

\* C25: under fair delivery of timers, with each load attempt free to
\* succeed, fail or never answer, a loader started by loadForm eventually
\* reaches Loaded or Failed: it does not stay in Loading or Retrying forever.
C25_EventuallySettled == LoaderStarted ~> LoaderSettled

\* The load attempts made so far: loadForm's and one for each retryLoad.
AttemptsStarted == IF LoaderStarted THEN reloads + 1 ELSE 0

\* C26: a failed attempt is counted once, by its error event or by the load
\* timeout and never by both: the attempt counter never exceeds the number
\* of attempts made, and at most one retry timer is pending.
C26_FailureCountedOnce ==
    /\ loadAttempts <= AttemptsStarted
    /\ RetryTimers(timers) <= 1

\* The failure message of showErrorState is on the page.
FailureDisplayed == SkeletonInDom /\ skeletonText = "error"

\* C27: the iframe has opacity '1' only after the placeholder was removed
\* from the page: it never shows while the skeleton or the failure message
\* is displayed.
C27_FormAfterSkeleton ==
    iframeOpacity = "1" => skeleton = "removed" /\ ~FailureDisplayed

\* The iframe was shown after the failure message had been rendered.
C27_Witness == iframeOpacity = "1" /\ errorStateRuns > 0

\* A step in which the connection dispatched a change event to the started
\* monitor.
ChangeEvent == netStarted /\ netChanges' = netChanges + 1

\* C28: the monitor keeps at most one 'change' listener on the connection,
\* and each change event causes exactly one run of detectNetworkSpeed, which
\* leaves networkSpeed 'high' for '4g', 'medium' for '3g' and 'low' otherwise.
C28_OneListener ==
    /\ [](changeListeners <= 1)
    /\ [][ChangeEvent =>
             /\ evaluations' = evaluations + 1
             /\ networkSpeed' = SpeedOf(effectiveType')]_vars

\* C29: the ticker's play state is 'running' only while the ticker
\* intersects the viewport, however the notifications of its observer
\* interleave with mouseenter and mouseleave.  Stated for the states in
\* which every notification has been delivered, and for a ticker that only
\* initTicker controls.
C29_TickerRunsInView ==
    amInitDone /\ Idle /\ TICKER \notin observed /\ playState[TICKER] = "running"
        => TickerIntersects(pos[TICKER])

\* C30: over the page loads and reloads that share one session storage, at
\* most one load displays the tooltip, whatever the time between the loads.
C30_TooltipOncePerSession == loadsDisplayed <= 1

\* C31: once no frame callback is pending, the transform of every card
\* that received an event is the one of its last event: raised after
\* mouseenter or touchstart, back at translateY(0) after mouseleave or
\* touchend, also when two events arrived within the same frame.
C31_TransformFollowsLastEvent ==
    \A c \in Cards :
        ~cards[c].isAnimating /\ cards[c].lastEvent # "none"
            => cards[c].transform = TransformOf(DirectionOf(cards[c].lastEvent))

\* The toast numbered t is in the document.
Present(ts, t) == \E k \in 1..Len(ts) : ts[k] = t

\* C32: at most one notification is in the document at any time; a timer
\* of a toast never removes a toast created later; and every toast is
\* eventually removed.
C32_OneToast ==
    /\ [](Len(toasts) <= 1)
    /\ [][\A i \in TimerIdx :
             ToastFade(i) \/ ToastRemove(i) =>
                 \A u \in 1..MaxToasts :
                     u > timers[i].arg /\ Present(toasts, u)
                         => Present(toasts', u)]_vars
    /\ \A t \in 1..MaxToasts :
           Present(toasts, t) ~> ~Present(toasts, t)

\* The second toast is in the document after both timers of the first one
\* have run, and it was created before the first toast's removal timer ran.
C32_Witness ==
    /\ toasts = <<2>>
    /\ 1 \in toastFading
    /\ \A i \in TimerIdx : timers[i].arg # 1
    /\ \E i \in TimerIdx :
           /\ timers[i].kind = "toastFade"
           /\ timers[i].arg = 2
           /\ timers[i].due < TOAST_DURATION + TOAST_SLIDE_OUT + TOAST_DURATION

\* The text shows the number n with two decimal digits.
TwoDigits(text, n) ==
    /\ Len(text) = 2
    /\ \A k \in 1..2 : text[k] \in 0..9
    /\ 10 * text[1] + text[2] = n

\* The three texts show h hours, m minutes and s seconds.
Displays(text, h, m, s) ==
    /\ TwoDigits(text["hours"], h)
    /\ TwoDigits(text["minutes"], m)
    /\ TwoDigits(text["seconds"], s)

\* C33: for every distance d to the next midnight with 0 < d <= 24 hours, a
\* run of updateCountdown on a document with the three elements displays
\* hours in 0..23, minutes in 0..59 and seconds in 0..59, each with two
\* digits, with hours*3600 + minutes*60 + seconds = floor(d/1000) mod 86400.
C33_CountdownFields ==
    [][\A i \in TimerIdx, d \in Distances :
          UpdateCountdown(i, d) /\ cdDoc = CountdownIds =>
              \E h \in 0..23, m \in 0..59, s \in 0..59 :
                  /\ h * 3600 + m * 60 + s = (d \div 1000) % 86400
                  /\ Displays(cdText', h, m, s)]_vars

\* A run has displayed 12:34:56.
C33_Witness ==
    /\ cdRuns > 0
    /\ cdDoc = CountdownIds
    /\ Displays(cdText, 12, 34, 56)

=============================================================================
